---- MODULE Spec2Model ----
(***************************************************************************)
(* A model of description_research/step_2_documentation_same_language.py   *)
(* (dd-trace-go): the documentation scanning, extraction, filtering and    *)
(* ranking engine, and the command main() that drives it; and of           *)
(* step_4c_merge_llm_needed_into_step_2.py, the merge into its output.     *)
(*                                                                         *)
(* Python strings are TLA+ strings; a character is a string of length 1.   *)
(* Python lists are sequences, dicts are functions whose DOMAIN is the set *)
(* of keys present, and an offset the code counts from 0 is kept 0-based.  *)
(***************************************************************************)
EXTENDS Integers, Sequences, FiniteSets, TLC

VARIABLES
    pc,     \* position of the modelled call or of main()
    call,   \* the arguments of the function under check (function specifications)
    ret,    \* its return value
    fs,     \* the files: input catalog, docs checkout, alias catalog, output directory
    argv,   \* the command line of main()
    frame,  \* the locals of main(), its exit status and what it printed to stderr
    hist    \* history: the invocation number, the output file before it, the first result

vars == <<pc, call, ret, fs, argv, frame, hist>>

\* Python's None, and the value of a variable that is not assigned yet.
None == [none |-> TRUE]

(***************************************************************************)
(* Characters and strings                                                  *)
(***************************************************************************)

\* The backtick cannot be written inside a TLA+ string: "^" stands for it
\* everywhere in this module (the source never uses "^" as a text character).
BT == "^"

\* The ASCII characters in code-point order ("^" at the backtick's place).
Ascii == "\t\n\f\r !\"#$%&'()*+,-./0123456789:;<=>?@ABCDEFGHIJKLMNOPQRSTUVWXYZ[\\]_^abcdefghijklmnopqrstuvwxyz{|}~"

Ch(s, i) == SubSeq(s, i, i)

CharsOf(s) == {Ch(s, i) : i \in 1..Len(s)}

Ord == [c \in CharsOf(Ascii) |-> CHOOSE i \in 1..Len(Ascii) : Ch(Ascii, i) = c]

UpperLetters == "ABCDEFGHIJKLMNOPQRSTUVWXYZ"
LowerLetters == "abcdefghijklmnopqrstuvwxyz"
Digits == "0123456789"

LowerOf == [c \in CharsOf(Ascii) |->
              IF c \in CharsOf(UpperLetters)
              THEN Ch(LowerLetters, CHOOSE i \in 1..26 : Ch(UpperLetters, i) = c)
              ELSE c]

\* The least and the greatest element of a non-empty set of integers
MinOf(S) == CHOOSE x \in S : \A y \in S : x <= y
MaxOf(S) == CHOOSE x \in S : \A y \in S : y <= x

\* F(v) with v computed once, before the body of F is: the local variable
\* assignment "x = v" followed by code that reads x.
Bind(v, F(_)) == CHOOSE r \in {F(x) : x \in {v}} : TRUE

\* str.lower() (character by character, by halves)
RECURSIVE lower(_)
lower(s) ==
    IF Len(s) = 0 THEN ""
    ELSE IF Len(s) = 1 THEN LowerOf[s]
    ELSE lower(SubSeq(s, 1, Len(s) \div 2)) \o lower(SubSeq(s, Len(s) \div 2 + 1, Len(s)))

\* s[i:].startswith(t), i counted from 1
HasAt(s, t, i) == i + Len(t) - 1 <= Len(s) /\ SubSeq(s, i, i + Len(t) - 1) = t

\* t in s
Contains(s, t) == \E i \in 1..(Len(s) + 1) : HasAt(s, t, i)

\* str.replace(a, b) for a single character a
RECURSIVE replace_char(_, _, _)
replace_char(s, a, b) ==
    IF Len(s) = 0 THEN ""
    ELSE IF Len(s) = 1 THEN (IF s = a THEN b ELSE s)
    ELSE replace_char(SubSeq(s, 1, Len(s) \div 2), a, b)
         \o replace_char(SubSeq(s, Len(s) \div 2 + 1, Len(s)), a, b)

\* The sequence of code points of a string: Python orders strings by it.
StrKey(s) == [i \in 1..Len(s) |-> Ord[Ch(s, i)]]

\* Lexicographic order of two sequences of integers.
SeqLess(a, b) ==
    Bind({i \in DOMAIN a \cap DOMAIN b : a[i] # b[i]}, LAMBDA diff :
        IF diff = {} THEN Len(a) < Len(b)
        ELSE Bind(MinOf(diff), LAMBDA i : a[i] < b[i]))

\* Python's order on tuples; every component is a sequence of integers
\* (an int n is <<n>>, a string is its StrKey).
RECURSIVE KeyLess(_, _)
KeyLess(k1, k2) ==
    IF Len(k2) = 0 THEN FALSE
    ELSE IF Len(k1) = 0 THEN TRUE
    ELSE IF k1[1] # k2[1] THEN SeqLess(k1[1], k2[1])
    ELSE KeyLess(Tail(k1), Tail(k2))

\* A stable sort that leaves the list as it is.
list_sort_unsorted(items, keys) == items

\* list.sort(key=...) / sorted(...): a stable sort; keys[i] is the key of items[i].
RECURSIVE InsertByKey(_, _, _, _)
InsertByKey(sorted, skeys, x, k) ==
    IF Len(sorted) = 0 \/ KeyLess(k, skeys[1])
    THEN [items |-> <<x>> \o sorted, keys |-> <<k>> \o skeys]
    ELSE Bind(InsertByKey(Tail(sorted), Tail(skeys), x, k), LAMBDA rest :
             [items |-> <<sorted[1]>> \o rest.items, keys |-> <<skeys[1]>> \o rest.keys])

RECURSIVE SortPrefix(_, _, _)
SortPrefix(items, keys, n) ==
    IF n = 0 THEN [items |-> <<>>, keys |-> <<>>]
    ELSE Bind(SortPrefix(items, keys, n - 1), LAMBDA p :
             InsertByKey(p.items, p.keys, items[n], keys[n]))

list_sort(items, keys) == SortPrefix(items, keys, Len(items)).items

\* sorted(set(strings))
RECURSIVE sorted_set(_)
sorted_set(S) ==
    IF S = {} THEN <<>>
    ELSE Bind(CHOOSE x \in S : \A y \in S : ~SeqLess(StrKey(y), StrKey(x)), LAMBDA m :
             <<m>> \o sorted_set(S \ {m}))

Range(q) == {q[i] : i \in DOMAIN q}

(***************************************************************************)
(* Text normalisation                                                      *)
(***************************************************************************)

\* The characters str.strip() removes and \s matches.
Whitespace == {" ", "\t", "\n", "\r", "\f"}

\* \w
WordChars == CharsOf(UpperLetters) \cup CharsOf(LowerLetters) \cup CharsOf(Digits) \cup {"_"}

\* The positions of s whose character is not in cs
Outside(s, cs) == {i \in 1..Len(s) : Ch(s, i) \notin cs}

\* s.lstrip(cs), s.rstrip(cs)
lstrip(s, cs) == IF Outside(s, cs) = {} THEN "" ELSE SubSeq(s, MinOf(Outside(s, cs)), Len(s))

rstrip(s, cs) == IF Outside(s, cs) = {} THEN "" ELSE SubSeq(s, 1, MaxOf(Outside(s, cs)))

\* str.strip()
strip(s) == rstrip(lstrip(s, Whitespace), Whitespace)

\* The least j >= i with s[j] = c, or 0.
FindChar(s, c, i) ==
    Bind({j \in i..Len(s) : Ch(s, j) = c}, LAMBDA hits :
        IF hits = {} THEN 0 ELSE MinOf(hits))

\* The length of the run of characters of cs that starts at i.
RunLen(s, cs, i) ==
    Bind({j \in i..Len(s) : Ch(s, j) \notin cs}, LAMBDA stops :
        IF i > Len(s) THEN 0
        ELSE IF stops = {} THEN Len(s) - i + 1
        ELSE MinOf(stops) - i)

\* s.split(sep) for a single character sep
RECURSIVE split(_, _)
split(s, sep) ==
    Bind(FindChar(s, sep, 1), LAMBDA j :
        IF j = 0 THEN <<s>>
        ELSE <<SubSeq(s, 1, j - 1)>> \o split(SubSeq(s, j + 1, Len(s)), sep))

\* sep.join(parts)
RECURSIVE join(_, _)
join(parts, sep) ==
    IF Len(parts) = 0 THEN ""
    ELSE IF Len(parts) = 1 THEN parts[1]
    ELSE parts[1] \o sep \o join(Tail(parts), sep)

\* s.replace("\r\n", "\n").replace("\r", "\n")
\* (the "\r" of a "\r\n" goes, every other "\r" becomes "\n"; by halves)
RECURSIVE unify_range(_, _, _)
unify_range(s, a, b) ==
    IF a > b THEN ""
    ELSE IF a = b
    THEN (IF Ch(s, a) # "\r" THEN Ch(s, a) ELSE IF HasAt(s, "\n", a + 1) THEN "" ELSE "\n")
    ELSE unify_range(s, a, (a + b) \div 2) \o unify_range(s, (a + b) \div 2 + 1, b)

unify_newlines(s) == unify_range(s, 1, Len(s))

\* re.sub over s from position i: MatchLen(s, i) is the length of the match of
\* the pattern at i (0: none; no pattern here matches the empty string) and
\* Repl(s, i, n) the text that replaces it.
RECURSIVE re_sub(_, _, _, _)
re_sub(MatchLen(_, _), Repl(_, _, _), s, i) ==
    Bind({j \in i..Len(s) : MatchLen(s, j) > 0}, LAMBDA hits :
        IF hits = {} THEN SubSeq(s, i, Len(s))
        ELSE Bind(MinOf(hits), LAMBDA j :
             Bind(MatchLen(s, j), LAMBDA n :
                 SubSeq(s, i, j - 1) \o Repl(s, j, n) \o re_sub(MatchLen, Repl, s, j + n))))

ReplEmpty(s, i, n) == ""
ReplNewline(s, i, n) == "\n"
ReplSpace(s, i, n) == " "

\* \[([^\]]+)\] followed by open [^close]+ close; open/close are "[" "]" for
\* a reference link and "(" ")" for an inline link.
link_len(s, i, open, close) ==
    Bind(FindChar(s, "]", i + 1), LAMBDA j :
    Bind(FindChar(s, close, j + 2), LAMBDA k :
        IF Ch(s, i) = "[" /\ j > i + 1 /\ HasAt(s, open, j + 1) /\ k > j + 2
        THEN k - i + 1 ELSE 0))

ref_link_len(s, i) == link_len(s, i, "[", "]")
inline_link_len(s, i) == link_len(s, i, "(", ")")
\* \1: the visible text of the link
link_text(s, i, n) == SubSeq(s, i + 1, FindChar(s, "]", i + 1) - 1)

\* The position after "<" and an optional "/" when s[i] is "<", else 0.
tag_open(s, i) ==
    IF Ch(s, i) # "<" THEN 0 ELSE IF HasAt(s, "/", i + 1) THEN i + 2 ELSE i + 1

\* </?code\s*>
code_tag_len(s, i) ==
    Bind(tag_open(s, i), LAMBDA p :
    Bind(p + 4 + RunLen(s, Whitespace, p + 4), LAMBDA q :
        IF p > 0 /\ HasAt(s, "code", p) /\ HasAt(s, ">", q) THEN q - i + 1 ELSE 0))

\* </?a\b[^>]*>
a_tag_len(s, i) ==
    Bind(tag_open(s, i), LAMBDA p :
    Bind(FindChar(s, ">", p + 1), LAMBDA k :
        IF p > 0 /\ HasAt(s, "a", p) /\ k > 0 /\ Ch(s, p + 1) \notin WordChars
        THEN k - i + 1 ELSE 0))

\* <br\s*/?> (IGNORECASE)
br_tag_len(s, i) ==
    Bind(i + 3 + RunLen(s, Whitespace, i + 3), LAMBDA q :
    Bind(IF HasAt(s, "/", q) THEN q + 1 ELSE q, LAMBDA r :
        IF i + 2 <= Len(s) /\ Ch(s, i) = "<" /\ lower(SubSeq(s, i + 1, i + 2)) = "br" /\ HasAt(s, ">", r)
        THEN r - i + 1 ELSE 0))

\* </?[a-z][^>]*>
html_tag_len(s, i) ==
    Bind(tag_open(s, i), LAMBDA p :
    Bind(FindChar(s, ">", p + 1), LAMBDA k :
        IF p > 0 /\ p <= Len(s) /\ Ch(s, p) \in CharsOf(LowerLetters) /\ k > 0
        THEN k - i + 1 ELSE 0))

\* \{\{<[^>]*>\}\}
shortcode_lt_len(s, i) ==
    Bind(FindChar(s, ">", i + 3), LAMBDA k :
        IF HasAt(s, "{{<", i) /\ k > 0 /\ HasAt(s, "}}", k + 1) THEN k + 2 - i + 1 ELSE 0)

\* \{\{%[^%]*%\}\}
shortcode_pct_len(s, i) ==
    Bind(FindChar(s, "%", i + 3), LAMBDA k :
        IF HasAt(s, "{{%", i) /\ k > 0 /\ HasAt(s, "}}", k + 1) THEN k + 2 - i + 1 ELSE 0)

\* [ \t]+
blank_run_len(s, i) == RunLen(s, {" ", "\t"}, i)

\* \s+
space_run_len(s, i) == RunLen(s, Whitespace, i)

rstrip_line(ln) == rstrip(ln, Whitespace)

\* [ln.rstrip() for ln in lines]
rstrip_lines(lines) == [n \in DOMAIN lines |-> rstrip_line(lines[n])]

\* normalize_text
normalize_text(s0) ==
    Bind(strip(join(rstrip_lines(split(unify_newlines(strip(s0)), "\n")), "\n")), LAMBDA s1 :
    Bind(re_sub(ref_link_len, link_text, s1, 1), LAMBDA s2 :
    Bind(re_sub(inline_link_len, link_text, s2, 1), LAMBDA s3 :
    Bind(join(split(s3, BT), ""), LAMBDA s4 :
    Bind(re_sub(code_tag_len, ReplEmpty, s4, 1), LAMBDA s5 :
    Bind(re_sub(a_tag_len, ReplEmpty, s5, 1), LAMBDA s6 :
    Bind(re_sub(br_tag_len, ReplNewline, s6, 1), LAMBDA s7 :
    Bind(re_sub(html_tag_len, ReplEmpty, s7, 1), LAMBDA s8 :
    Bind(re_sub(shortcode_lt_len, ReplEmpty, s8, 1), LAMBDA s9 :
    Bind(re_sub(shortcode_pct_len, ReplEmpty, s9, 1), LAMBDA s10 :
    Bind(re_sub(blank_run_len, ReplSpace, s10, 1), LAMBDA s11 :
    strip(s11))))))))))))

\* De-duplication by the text as it stands.
normalize_for_dedupe_raw(s) == s

\* normalize_for_dedupe
normalize_for_dedupe(s) ==
    strip(re_sub(space_run_len, ReplSpace, lower(normalize_text(s)), 1))

\* [A-Z0-9_] of the environment variable names
EnvNameChars == CharsOf(UpperLetters) \cup CharsOf(Digits) \cup {"_"}

\* The match length of \b(?:DD|OTEL)_[A-Z0-9_]+\b at i (0: none).
env_var_len(s, i) ==
    Bind(IF HasAt(s, "DD_", i) THEN 3 ELSE IF HasAt(s, "OTEL_", i) THEN 5 ELSE 0, LAMBDA pre :
    Bind(pre + RunLen(s, EnvNameChars, i + pre), LAMBDA n :
        IF /\ pre > 0 /\ n > pre
           /\ \A j \in {i - 1, i + n} : j < 1 \/ j > Len(s) \/ Ch(s, j) \notin WordChars
        THEN n ELSE 0))

\* set(re.findall(r"\b(?:DD|OTEL)_[A-Z0-9_]+\b", s[i:]))
RECURSIVE env_vars_from(_, _)
env_vars_from(s, i) ==
    Bind([j \in i..Len(s) |-> env_var_len(s, j)], LAMBDA len :
    Bind({j \in DOMAIN len : len[j] > 0}, LAMBDA hits :
        IF hits = {} THEN {}
        ELSE Bind(MinOf(hits), LAMBDA j :
                 {SubSeq(s, j, j + len[j] - 1)} \cup env_vars_from(s, j + len[j]))))

\* count_other_env_vars
count_other_env_vars(text, key) == Cardinality(env_vars_from(text, 1) \ {key})

(***************************************************************************)
(* Term index and the union regular expression                             *)
(***************************************************************************)

\* TOKEN_BOUNDARY_CLASS = [A-Za-z0-9_-]
TOKEN_BOUNDARY_CLASS == CharsOf(UpperLetters) \cup CharsOf(LowerLetters) \cup CharsOf(Digits) \cup {"_", "-"}

\* The union regex without its lookarounds: (?:t1|t2|...) alone.
compile_union_regex_unanchored(terms) ==
    LET ts == {t \in Range(terms) : t # ""}
    IN  IF ts = {} THEN None
        ELSE [alts |-> sorted_set(ts), lookbehind |-> FALSE, lookahead |-> FALSE]

\* compile_union_regex: (?<![A-Za-z0-9_-])(?:t1|t2|...)(?![A-Za-z0-9_-]), the
\* alternatives in sorted order; None when no term is left.
compile_union_regex(terms) ==
    LET ts == {t \in Range(terms) : t # ""}
    IN  IF ts = {} THEN None
        ELSE [alts |-> sorted_set(ts), lookbehind |-> TRUE, lookahead |-> TRUE]

\* The alternative the regex engine matches at position i (from 1), or "":
\* the lookbehind, then the first alternative, in order, that is followed by
\* a character satisfying the lookahead.
match_at(re, s, i) ==
    Bind({n \in DOMAIN re.alts :
             /\ ~re.lookbehind \/ i = 1 \/ Ch(s, i - 1) \notin TOKEN_BOUNDARY_CLASS
             /\ HasAt(s, re.alts[n], i)
             /\ \/ ~re.lookahead
                \/ i + Len(re.alts[n]) > Len(s)
                \/ Ch(s, i + Len(re.alts[n])) \notin TOKEN_BOUNDARY_CLASS},
         LAMBDA hits : IF hits = {} THEN "" ELSE re.alts[MinOf(hits)])

\* re.finditer(s) from position i: the non-overlapping matches, left to right,
\* each [group |-> matched text, start |-> 0-based offset].
RECURSIVE finditer_from(_, _, _)
finditer_from(re, s, i) ==
    Bind([j \in i..Len(s) |-> match_at(re, s, j)], LAMBDA m :
    Bind({j \in DOMAIN m : m[j] # ""}, LAMBDA hits :
        IF hits = {} THEN <<>>
        ELSE Bind(MinOf(hits), LAMBDA j :
             <<[group |-> m[j], start |-> j - 1]>> \o finditer_from(re, s, j + Len(m[j])))))

finditer(re, s) == finditer_from(re, s, 1)

\* re.search(s) is not None
re_search(re, s) == \E i \in 1..Len(s) : match_at(re, s, i) # ""

\* The stable de-duplication of build_search_terms (empty terms dropped).
RECURSIVE dedupe_terms(_, _)
dedupe_terms(terms, seen) ==
    IF Len(terms) = 0 THEN <<>>
    ELSE IF terms[1] = "" \/ terms[1] \in seen THEN dedupe_terms(Tail(terms), seen)
    ELSE <<terms[1]>> \o dedupe_terms(Tail(terms), seen \cup {terms[1]})

\* The term list with the hyphenated variant after the aliases.
terms_of_key_aliases_first(key, alias_map) ==
    dedupe_terms(
        <<key>>
        \o (IF key \in DOMAIN alias_map THEN alias_map[key] ELSE <<>>)
        \o (IF Contains(key, "_") THEN <<replace_char(key, "_", "-")>> ELSE <<>>),
        {})

\* The term list build_search_terms gives one key.
terms_of_key(key, alias_map) ==
    dedupe_terms(
        <<key>>
        \o (IF Contains(key, "_") THEN <<replace_char(key, "_", "-")>> ELSE <<>>)
        \o (IF key \in DOMAIN alias_map THEN alias_map[key] ELSE <<>>),
        {})

\* alias_term_to_key after the keys ks (in order) have been processed: a
\* later key's assignment replaces an earlier one's.
RECURSIVE alias_index(_, _, _)
alias_index(ks, alias_map, n) ==
    IF n = 0 THEN <<>>
    ELSE Bind(alias_index(ks, alias_map, n - 1), LAMBDA prev :
         Bind(Range(Tail(terms_of_key(ks[n], alias_map))), LAMBDA mine :
             [t \in DOMAIN prev \cup mine |-> IF t \in mine THEN ks[n] ELSE prev[t]]))

\* build_search_terms: [key_to_terms, alias_term_to_key]
build_search_terms(keys, alias_map) ==
    Bind(sorted_set(Range(keys)), LAMBDA ks :
        [key_to_terms      |-> [k \in Range(ks) |-> terms_of_key(k, alias_map)],
         alias_term_to_key |-> alias_index(ks, alias_map, Len(ks))])

(***************************************************************************)
(* Occurrence scanner                                                      *)
(***************************************************************************)

\* TRACER_LANG_HINTS.get(lang, [lang])
lang_hints(lang) ==
    CASE lang = "golang" -> <<"golang", "go">>
      [] lang = "nodejs" -> <<"nodejs", "node">>
      [] lang = "dotnet" -> <<"dotnet", "csharp">>
      [] OTHER -> <<lang>>

LowerAlnum == CharsOf(LowerLetters) \cup CharsOf(Digits)

\* token_in_path: (?:^|[^a-z0-9])token(?:[^a-z0-9]|$) found in path_lower
token_in_path(path_lower, token) ==
    \E i \in 1..Len(path_lower) :
        /\ HasAt(path_lower, token, i)
        /\ (i = 1 \/ Ch(path_lower, i - 1) \notin LowerAlnum)
        /\ (i + Len(token) > Len(path_lower) \/ Ch(path_lower, i + Len(token)) \notin LowerAlnum)

path_has_any_token(path_lower, tokens) ==
    \E n \in DOMAIN tokens : token_in_path(path_lower, tokens[n])

\* compute_path_keyword_score: lower is better.
compute_path_keyword_score(relpath) ==
    Bind(lower(relpath), LAMBDA pl :
        (IF \E x \in {"release", "changelog"} : Contains(pl, x) THEN 50 ELSE 0)
        - (IF \E x \in {"tracing", "apm", "serverless", "profil", "opentelemetry", "security", "appsec"} :
                 Contains(pl, x)
           THEN 10 ELSE 0))

\* A FileMatch (abspath is docs_repo / relpath and is not kept apart).
FileMatch(rel, pass_id, match_pos, has_lang, score) ==
    [relpath |-> rel, pass_id |-> pass_id, match_pos |-> match_pos,
     has_lang_hint |-> has_lang, path_keyword_score |-> score]

\* FileMatch.sort_key
sort_key(fm) ==
    << <<fm.pass_id>>, <<IF fm.has_lang_hint THEN 0 ELSE 1>>, <<fm.path_keyword_score>>,
       StrKey(fm.relpath), <<fm.match_pos>> >>

\* read_text that hands back whatever the file holds, whether or not it can
\* be read.
read_text_unchecked(docs_repo, rel) ==
    IF rel \in DOMAIN docs_repo THEN [ok |-> TRUE, text |-> docs_repo[rel].content]
    ELSE [ok |-> FALSE, text |-> ""]

\* p.read_text(...): the text of a file of the tree, or an exception.
read_text(docs_repo, rel) ==
    IF rel \in DOMAIN docs_repo /\ docs_repo[rel].readable
    THEN [ok |-> TRUE, text |-> docs_repo[rel].content]
    ELSE [ok |-> FALSE, text |-> ""]

\* out.setdefault(key, []).append(fm)
setdefault_append(out, key, fm) ==
    IF key \in DOMAIN out THEN [out EXCEPT ![key] = Append(@, fm)]
    ELSE [k \in DOMAIN out \cup {key} |-> IF k = key THEN <<fm>> ELSE out[k]]

\* The loop without seen_in_file: every match is recorded.
RECURSIVE record_matches_every(_, _, _, _, _)
record_matches_every(acc, ms, fm0, is_alias, alias_term_to_key) ==
    IF Len(ms) = 0 THEN acc
    ELSE record_matches_every(
             Bind(ms[1].group, LAMBDA term :
                 IF is_alias /\ term \notin DOMAIN alias_term_to_key THEN acc
                 ELSE [acc EXCEPT !.out = setdefault_append(
                                   acc.out, IF is_alias THEN alias_term_to_key[term] ELSE term,
                                   [fm0 EXCEPT !.match_pos = ms[1].start])]),
             Tail(ms), fm0, is_alias, alias_term_to_key)

\* One finditer loop of scan_for_file_matches over the matches ms of a file:
\* acc is [out, seen_in_file]; fm0 is the file's FileMatch without its offset.
RECURSIVE record_matches(_, _, _, _, _)
record_matches(acc, ms, fm0, is_alias, alias_term_to_key) ==
    IF Len(ms) = 0 THEN acc
    ELSE record_matches(
             Bind(ms[1].group, LAMBDA term :
                 IF term \in acc.seen_in_file THEN acc
                 ELSE IF is_alias /\ term \notin DOMAIN alias_term_to_key
                 THEN [acc EXCEPT !.seen_in_file = @ \cup {term}]
                 ELSE [out |-> setdefault_append(
                                   acc.out, IF is_alias THEN alias_term_to_key[term] ELSE term,
                                   [fm0 EXCEPT !.match_pos = ms[1].start]),
                       seen_in_file |-> acc.seen_in_file \cup {term}]),
             Tail(ms), fm0, is_alias, alias_term_to_key)

\* The body of the file loop of scan_for_file_matches for one file.
regex_matches(re, text) == IF re = None THEN <<>> ELSE finditer(re, text)

scan_file(out, rel, docs_repo, hints, re_keys, re_alias, alias_term_to_key, pass_id) ==
    Bind(read_text(docs_repo, rel), LAMBDA r :
        IF ~r.ok THEN out
        ELSE Bind(FileMatch(rel, pass_id, 0, path_has_any_token(lower(rel), hints),
                            compute_path_keyword_score(rel)), LAMBDA fm0 :
             Bind([n \in 1..2 |-> regex_matches(<<re_keys, re_alias>>[n], r.text)], LAMBDA found :
             Bind(record_matches([out |-> out, seen_in_file |-> {}], found[1], fm0, FALSE,
                                 alias_term_to_key), LAMBDA a1 :
                 record_matches(a1, found[2], fm0, TRUE, alias_term_to_key).out))))

RECURSIVE scan_files(_, _, _, _, _, _, _, _)
scan_files(files, n, docs_repo, hints, re_keys, re_alias, alias_term_to_key, pass_id) ==
    IF n = 0 THEN <<>>
    ELSE scan_file(scan_files(files, n - 1, docs_repo, hints, re_keys, re_alias, alias_term_to_key, pass_id),
                   files[n], docs_repo, hints, re_keys, re_alias, alias_term_to_key, pass_id)

\* The last n elements instead of the first.
TakeLast(lst, n) == SubSeq(lst, IF n < Len(lst) THEN Len(lst) - n + 1 ELSE 1, Len(lst))

\* lst[:n]
Take(lst, n) == SubSeq(lst, 1, IF n < Len(lst) THEN n ELSE Len(lst))

\* [t for k in keys for t in key_to_terms.get(k, [])[1:]]
RECURSIVE alias_terms_of(_, _)
alias_terms_of(keys, key_to_terms) ==
    IF Len(keys) = 0 THEN <<>>
    ELSE (IF keys[1] \in DOMAIN key_to_terms THEN Tail(key_to_terms[keys[1]]) ELSE <<>>)
         \o alias_terms_of(Tail(keys), key_to_terms)

\* scan_for_file_matches: canonical key => its FileMatches of this pass,
\* sorted by sort_key and cut to max_files_per_key.
scan_for_file_matches(files, docs_repo, lang, keys, key_to_terms, alias_term_to_key, pass_id, max_files_per_key) ==
    Bind(scan_files(files, Len(files), docs_repo, lang_hints(lang),
                    compile_union_regex(keys),
                    compile_union_regex(alias_terms_of(keys, key_to_terms)),
                    alias_term_to_key, pass_id), LAMBDA out :
        [k \in DOMAIN out |->
            Take(list_sort(out[k], [i \in DOMAIN out[k] |-> sort_key(out[k][i])]),
                 max_files_per_key)])

(***************************************************************************)
(* Code-context mask and quality bar                                       *)
(***************************************************************************)

\* The position of the first character of ln after its leading white space.
AfterWs(ln) == 1 + RunLen(ln, Whitespace, 1)

\* \b after a word character that ends at position i - 1
WordEndsBefore(s, i) == i > Len(s) \/ Ch(s, i) \notin WordChars

\* fence_re: ^\s*(```|~~~)
is_fence(ln) == HasAt(ln, BT \o BT \o BT, AfterWs(ln)) \/ HasAt(ln, "~~~", AfterWs(ln))

\* ^\s*\{\{[<%]\s*name\b for name in highlight, /highlight, code-block, /code-block
is_shortcode_marker(ln, name) ==
    LET p == AfterWs(ln)
        q == p + 3 + RunLen(ln, Whitespace, p + 3)
    IN  /\ (HasAt(ln, "{{<", p) \/ HasAt(ln, "{{%", p))
        /\ HasAt(ln, name, q)
        /\ WordEndsBefore(ln, q + Len(name))

\* The loop of build_code_context_mask from line n on; st holds in_fence,
\* in_highlight and in_code_block.
RECURSIVE code_mask_from(_, _, _)
code_mask_from(lines, n, st) ==
    IF n > Len(lines) THEN <<>>
    ELSE LET ln == lines[n]
         IN  IF is_fence(ln)
             THEN <<TRUE>> \o code_mask_from(lines, n + 1, [st EXCEPT !.in_fence = ~@])
             ELSE IF is_shortcode_marker(ln, "highlight")
             THEN <<TRUE>> \o code_mask_from(lines, n + 1, [st EXCEPT !.in_highlight = TRUE])
             ELSE IF is_shortcode_marker(ln, "/highlight")
             THEN <<TRUE>> \o code_mask_from(lines, n + 1, [st EXCEPT !.in_highlight = FALSE])
             ELSE IF is_shortcode_marker(ln, "code-block")
             THEN <<TRUE>> \o code_mask_from(lines, n + 1, [st EXCEPT !.in_code_block = TRUE])
             ELSE IF is_shortcode_marker(ln, "/code-block")
             THEN <<TRUE>> \o code_mask_from(lines, n + 1, [st EXCEPT !.in_code_block = FALSE])
             ELSE <<st.in_fence \/ st.in_highlight \/ st.in_code_block>> \o code_mask_from(lines, n + 1, st)

\* build_code_context_mask
build_code_context_mask(lines) ==
    code_mask_from(lines, 1, [in_fence |-> FALSE, in_highlight |-> FALSE, in_code_block |-> FALSE])

\* looks_like_heading: ^\s*#{1,6}\s+
looks_like_heading(line) ==
    LET p == AfterWs(line)
        h == RunLen(line, {"#"}, p)
    IN  h >= 1 /\ h <= 6 /\ p + h <= Len(line) /\ Ch(line, p + h) \in Whitespace

\* s.count(t) for a two-character t
RECURSIVE count_from(_, _, _)
count_from(s, t, i) ==
    Bind({j \in i..Len(s) : HasAt(s, t, j)}, LAMBDA hits :
        IF hits = {} THEN 0 ELSE 1 + count_from(s, t, MinOf(hits) + Len(t)))

\* ^\s*(export\s+)?(DD|OTEL)_[A-Z0-9_]+\s*=
looks_like_assignment(s) ==
    LET name_at(i) ==
            Bind(IF HasAt(s, "DD_", i) THEN 3 ELSE IF HasAt(s, "OTEL_", i) THEN 5 ELSE 0, LAMBDA pre :
            Bind(i + pre + RunLen(s, EnvNameChars, i + pre), LAMBDA q :
                pre > 0 /\ q > i + pre /\ HasAt(s, "=", q + RunLen(s, Whitespace, q))))
    IN  Bind(AfterWs(s), LAMBDA p :
        Bind(IF HasAt(s, "export", p) THEN RunLen(s, Whitespace, p + 6) ELSE 0, LAMBDA w :
            name_at(p) \/ (w > 0 /\ name_at(p + 6 + w))))

\* \bphrase\b found in s
has_phrase(s, phrase) ==
    \E i \in 1..Len(s) :
        /\ HasAt(s, phrase, i)
        /\ (i = 1 \/ Ch(s, i - 1) \notin WordChars)
        /\ WordEndsBefore(s, i + Len(phrase))

\* A quality bar that accepts every non-empty text.
passes_quality_bar_nonempty(description) == normalize_text(description) # ""

\* passes_quality_bar
passes_quality_bar(description) ==
    Bind(normalize_text(description), LAMBDA s :
    Bind(lower(s), LAMBDA lowered :
        IF s = "" THEN FALSE
        ELSE IF lowered \in {"tbd", "todo", "n/a", "na", "none"} THEN FALSE
        ELSE IF \E t \in {"{{", "}}"} : count_from(s, t, 1) >= 2 THEN FALSE
        ELSE IF looks_like_assignment(s) THEN FALSE
        ELSE IF Len(s) < 20 THEN \E phrase \in {"api key", "app key"} : has_phrase(lowered, phrase)
        ELSE TRUE))

(***************************************************************************)
(* Structured extractors: each returns a list of [desc, line_no, extractor] *)
(***************************************************************************)

Spec3(desc, line_no, extractor) == [desc |-> desc, line_no |-> line_no, extractor |-> extractor]

\* term_line_re: ^\s*`(?P<term>[^`]+)`\s*$ ; the group, or "" when the line
\* does not match (the group is never empty).
term_line(ln) ==
    Bind(strip(ln), LAMBDA t :
        IF Len(t) >= 3 /\ Ch(t, 1) = BT /\ Ch(t, Len(t)) = BT /\ FindChar(t, BT, 2) = Len(t)
        THEN SubSeq(t, 2, Len(t) - 1) ELSE "")

\* ^\s*:\s* matches at the start of ln
is_colon_line(ln) == HasAt(ln, ":", AfterWs(ln))

\* re.sub(r"^\s*:\s*", "", ln)
after_colon(ln) ==
    Bind(AfterWs(ln) + 1, LAMBDA p : SubSeq(ln, p + RunLen(ln, Whitespace, p), Len(ln)))

\* max_lines of extract_md_definition_list
DefinitionMaxLines == 10

\* A line at which the while loop of extract_md_definition_list stops: a
\* heading or the term line of another definition.
starts_next_entry(ln) == looks_like_heading(ln) \/ term_line(ln) # ""

\* The loop without its stop at a table row.
RECURSIVE definition_body_past_tables(_, _, _, _)
definition_body_past_tables(lines, code_mask, j, parts) ==
    IF j > Len(lines) \/ Len(parts) >= DefinitionMaxLines THEN parts
    ELSE IF code_mask[j] THEN parts
    ELSE Bind(rstrip_line(lines[j]), LAMBDA ln :
         Bind(strip(ln) = "", LAMBDA blank :
             IF starts_next_entry(IF ~blank THEN ln
                                  ELSE IF j + 1 <= Len(lines) THEN lines[j + 1] ELSE "")
             THEN parts
             ELSE definition_body_past_tables(lines, code_mask, j + 1, Append(parts, ln))))

\* The while loop of extract_md_definition_list from line j (from 1) on.
RECURSIVE definition_body(_, _, _, _)
definition_body(lines, code_mask, j, parts) ==
    IF j > Len(lines) \/ Len(parts) >= DefinitionMaxLines THEN parts
    ELSE IF code_mask[j] THEN parts
    ELSE Bind(rstrip_line(lines[j]), LAMBDA ln :
         Bind(strip(ln) = "", LAMBDA blank :
             IF starts_next_entry(IF ~blank THEN ln
                                  ELSE IF j + 1 <= Len(lines) THEN lines[j + 1] ELSE "")
             THEN parts
             ELSE IF ~blank /\ Contains(ln, "|") /\ HasAt(strip(ln), "|", 1) THEN parts
             ELSE definition_body(lines, code_mask, j + 1, Append(parts, ln))))

\* The candidates of extract_md_definition_list whose term line is line i or later.
RECURSIVE definition_list_from(_, _, _, _)
definition_list_from(lines, code_mask, terms, i) ==
    IF i >= Len(lines) THEN <<>>
    ELSE Bind(term_line(lines[i]), LAMBDA term :
             IF /\ ~code_mask[i] /\ ~code_mask[i + 1]
                /\ term # ""
                /\ strip(term) \in Range(terms)
                /\ is_colon_line(lines[i + 1])
             THEN Bind(rstrip_line(after_colon(lines[i + 1])), LAMBDA first :
                  Bind(definition_body(lines, code_mask, i + 2,
                                       IF first # "" THEN <<first>> ELSE <<>>), LAMBDA parts :
                  Bind(normalize_text(join(parts, "\n")), LAMBDA desc :
                      IF desc # "" THEN <<Spec3(desc, i + 1, "md_definition_list")>> ELSE <<>>)))
             ELSE <<>>)
         \o definition_list_from(lines, code_mask, terms, i + 1)

\* extract_md_definition_list
extract_md_definition_list(lines, code_mask, terms) ==
    definition_list_from(lines, code_mask, terms, 1)

\* re_inline: ^\s*[-*]\s+`(?P<term>t1|t2|...)`\s*:\s*(?P<desc>.+?)\s*$ ; the
\* group desc, or "" when the line does not match.
inline_bullet_desc(ln, terms) ==
    Bind(AfterWs(ln), LAMBDA p :
    Bind(p + 1 + RunLen(ln, Whitespace, p + 1), LAMBDA b :
    Bind({t \in Range(terms) : HasAt(ln, BT \o t \o BT, b)}, LAMBDA ts :
        IF p <= Len(ln) /\ Ch(ln, p) \in {"-", "*"} /\ b > p + 1 /\ ts # {}
        THEN Bind(b + Len(CHOOSE t \in ts : TRUE) + 2, LAMBDA e :
             Bind(e + RunLen(ln, Whitespace, e), LAMBDA c :
             Bind(c + 1 + RunLen(ln, Whitespace, c + 1), LAMBDA d :
                 IF ~HasAt(ln, ":", c) THEN ""
                 ELSE IF d <= Len(ln) THEN rstrip_line(SubSeq(ln, d, Len(ln)))
                 ELSE IF d - 1 > c THEN Ch(ln, Len(ln)) ELSE "")))
        ELSE "")))

\* extract_md_inline_bullet, from line i on
RECURSIVE inline_bullet_from(_, _, _, _)
inline_bullet_from(lines, code_mask, terms, i) ==
    IF i > Len(lines) THEN <<>>
    ELSE (IF code_mask[i] THEN <<>>
          ELSE Bind(normalize_text(inline_bullet_desc(lines[i], terms)), LAMBDA desc :
                   IF desc # "" THEN <<Spec3(desc, i, "md_inline_bullet")>> ELSE <<>>))
         \o inline_bullet_from(lines, code_mask, terms, i + 1)

extract_md_inline_bullet(lines, code_mask, terms) == inline_bullet_from(lines, code_mask, terms, 1)

\* s.strip("|")
strip_pipes(s) == rstrip(lstrip(s, {"|"}), {"|"})

\* split_row: [p.strip() for p in line.strip().strip("|").split("|")]
split_row(line) ==
    Bind(split(strip_pipes(strip(line)), "|"), LAMBDA cells :
        [n \in DOMAIN cells |-> strip(cells[n])])

\* looks_like_separator: ^\s*\|?\s*:?-{3,}
looks_like_separator(line) ==
    Bind(AfterWs(line), LAMBDA p :
    Bind(IF HasAt(line, "|", p) THEN p + 1 ELSE p, LAMBDA q :
    Bind(q + RunLen(line, Whitespace, q), LAMBDA r :
        HasAt(line, "---", IF HasAt(line, ":", r) THEN r + 1 ELSE r))))

\* The header window of extract_md_table_description
TableHeaderWindow == 7

\* The header search of extract_md_table_description for the row at line i
\* (from 1), looking at line j: desc_idx counted from 0, or -1 for None.
RECURSIVE table_desc_idx(_, _, _)
table_desc_idx(lines, i, j) ==
    IF j < 1 \/ j < i - TableHeaderWindow THEN -1
    ELSE Bind(lines[j], LAMBDA hdr :
             IF strip(hdr) = "" \/ ~Contains(hdr, "|") THEN -1
             ELSE IF looks_like_separator(hdr) THEN table_desc_idx(lines, i, j - 1)
             ELSE Bind(split_row(hdr), LAMBDA hdr_cells :
                  Bind({k \in DOMAIN hdr_cells : lower(hdr_cells[k]) = "description"}, LAMBDA found :
                      IF found = {} THEN -1 ELSE MinOf(found) - 1)))

\* The cap of extract_md_table_description on the candidates of one file
TableMaxMatches == 3

\* The body of the line loop of extract_md_table_description for line i: the
\* candidate of the row, or none.
table_row(lines, code_mask, terms_re, i) ==
    Bind(lines[i], LAMBDA ln :
        IF /\ ~code_mask[i]
           /\ Contains(ln, "|")
           /\ re_search(terms_re, ln)
           /\ ~looks_like_separator(ln)
        THEN Bind(split_row(ln), LAMBDA cells :
             Bind(table_desc_idx(lines, i, i - 1), LAMBDA desc_idx :
                 IF Len(cells) >= 2 /\ desc_idx >= 0 /\ desc_idx < Len(cells)
                 THEN Bind(normalize_text(cells[desc_idx + 1]), LAMBDA desc :
                          IF desc # "" THEN <<Spec3(desc, i, "md_table")>> ELSE <<>>)
                 ELSE <<>>))
        ELSE <<>>)

\* extract_md_table_description from line i on, out being what is collected.
RECURSIVE table_from(_, _, _, _, _)
table_from(lines, code_mask, terms_re, i, out) ==
    IF i > Len(lines) \/ Len(out) >= TableMaxMatches THEN out
    ELSE table_from(lines, code_mask, terms_re, i + 1,
                    out \o table_row(lines, code_mask, terms_re, i))

extract_md_table_description(lines, code_mask, terms) ==
    Bind(compile_union_regex(terms), LAMBDA terms_re :
        IF terms_re = None THEN <<>> ELSE table_from(lines, code_mask, terms_re, 1, <<>>))

\* [A-Za-z0-9_-]+ of key_line_re and name_re (the token-boundary class)
NameChars == TOKEN_BOUNDARY_CLASS

\* ['"]? at position i of ln: the position after it
after_quote(ln, i) == IF i <= Len(ln) /\ Ch(ln, i) \in {"'", "\""} THEN i + 1 ELSE i

\* key_line_re: ^\s*(name|key)\s*:\s*['"]?(?P<term>[A-Za-z0-9_-]+)['"]?\s*$ ;
\* the group term, or "".
yaml_key_term(ln) ==
    Bind(AfterWs(ln), LAMBDA p :
    Bind(IF HasAt(ln, "name", p) THEN 4 ELSE IF HasAt(ln, "key", p) THEN 3 ELSE 0, LAMBDA w :
    Bind(p + w + RunLen(ln, Whitespace, p + w), LAMBDA c :
    Bind(after_quote(ln, c + 1 + RunLen(ln, Whitespace, c + 1)), LAMBDA b :
    Bind(RunLen(ln, NameChars, b), LAMBDA n :
    Bind(after_quote(ln, b + n), LAMBDA e :
        IF w > 0 /\ HasAt(ln, ":", c) /\ n > 0 /\ e + RunLen(ln, Whitespace, e) > Len(ln)
        THEN SubSeq(ln, b, b + n - 1) ELSE ""))))))

\* desc_line_re: ^\s*(description|desc)\s*:\s*(?P<val>.*)\s*$ ; [ok, val]
yaml_desc_val(ln) ==
    Bind(AfterWs(ln), LAMBDA p :
    Bind([w \in {4, 11} |-> p + w + RunLen(ln, Whitespace, p + w)], LAMBDA colon :
    Bind(IF HasAt(ln, "description", p) /\ HasAt(ln, ":", colon[11]) THEN 11
         ELSE IF HasAt(ln, "desc", p) /\ HasAt(ln, ":", colon[4]) THEN 4 ELSE 0, LAMBDA w :
        IF w = 0 THEN [ok |-> FALSE, val |-> ""]
        ELSE [ok |-> TRUE,
              val |-> SubSeq(ln, colon[w] + 1 + RunLen(ln, Whitespace, colon[w] + 1), Len(ln))])))

\* The block-scalar loop of extract_yaml_description_near_key from line k on.
RECURSIVE yaml_block(_, _)
yaml_block(lines, k) ==
    IF k > Len(lines) THEN <<>>
    ELSE IF strip(lines[k]) = "" THEN <<"">> \o yaml_block(lines, k + 1)
    ELSE IF RunLen(lines[k], Whitespace, 1) < 2 THEN <<>>
    ELSE <<strip(lines[k])>> \o yaml_block(lines, k + 1)

\* s.strip("'\"")
strip_quotes(s) == rstrip(lstrip(s, {"'", "\""}), {"'", "\""})

\* The forward window of extract_yaml_description_near_key
YamlWindow == 30

\* The forward search of extract_yaml_description_near_key for the key line
\* i, at line j (both from 1).
RECURSIVE yaml_desc_after(_, _, _)
yaml_desc_after(lines, i, j) ==
    IF j > Len(lines) \/ j >= i + YamlWindow THEN <<>>
    ELSE Bind(yaml_desc_val(lines[j]), LAMBDA dm :
             IF ~dm.ok THEN yaml_desc_after(lines, i, j + 1)
             ELSE Bind(rstrip_line(dm.val), LAMBDA val :
                  Bind(val \in {"|", ">", "|-", ">-"}, LAMBDA block :
                  Bind(normalize_text(IF block THEN join(yaml_block(lines, j + 1), "\n")
                                      ELSE strip_quotes(strip(val))), LAMBDA desc :
                      IF desc = "" THEN <<>>
                      ELSE <<Spec3(desc, j, IF block THEN "yaml_description_block"
                                            ELSE "yaml_description")>>))))

RECURSIVE yaml_from(_, _, _)
yaml_from(lines, terms, i) ==
    IF i > Len(lines) THEN <<>>
    ELSE (IF yaml_key_term(lines[i]) \in Range(terms) THEN yaml_desc_after(lines, i, i + 1) ELSE <<>>)
         \o yaml_from(lines, terms, i + 1)

\* extract_yaml_description_near_key
extract_yaml_description_near_key(lines, terms) == yaml_from(lines, terms, 1)

\* name_re at position i: "(name|key)"\s*:\s*"(?P<term>[A-Za-z0-9_-]+)" ; the
\* group term, or "".
json_name_at(ln, i) ==
    Bind(IF HasAt(ln, "\"name\"", i) THEN 6 ELSE IF HasAt(ln, "\"key\"", i) THEN 5 ELSE 0, LAMBDA w :
    Bind(i + w + RunLen(ln, Whitespace, i + w), LAMBDA c :
    Bind(c + 1 + RunLen(ln, Whitespace, c + 1), LAMBDA a :
    Bind(RunLen(ln, NameChars, a + 1), LAMBDA n :
        IF w > 0 /\ HasAt(ln, ":", c) /\ HasAt(ln, "\"", a) /\ n > 0 /\ HasAt(ln, "\"", a + 1 + n)
        THEN SubSeq(ln, a + 1, a + n) ELSE ""))))

\* name_re.search(ln): the term of the leftmost match, or ""
json_name_term(ln) ==
    Bind([i \in 1..Len(ln) |-> json_name_at(ln, i)], LAMBDA m :
    Bind({i \in DOMAIN m : m[i] # ""}, LAMBDA hits :
        IF hits = {} THEN "" ELSE m[MinOf(hits)]))

\* desc_re at position i: "description"\s*:\s*"(?P<desc>.*?)" ; [ok, desc]
json_desc_at(ln, i) ==
    Bind(i + 13 + RunLen(ln, Whitespace, i + 13), LAMBDA c :
    Bind(c + 1 + RunLen(ln, Whitespace, c + 1), LAMBDA a :
    Bind(FindChar(ln, "\"", a + 1), LAMBDA z :
        IF HasAt(ln, "\"description\"", i) /\ HasAt(ln, ":", c) /\ HasAt(ln, "\"", a) /\ z > 0
        THEN [ok |-> TRUE, desc |-> SubSeq(ln, a + 1, z - 1)]
        ELSE [ok |-> FALSE, desc |-> ""])))

\* desc_re.search(ln)
json_desc(ln) ==
    Bind([i \in 1..Len(ln) |-> json_desc_at(ln, i)], LAMBDA m :
    Bind({i \in DOMAIN m : m[i].ok}, LAMBDA hits :
        IF hits = {} THEN [ok |-> FALSE, desc |-> ""] ELSE m[MinOf(hits)]))

\* The forward window of extract_json_description_near_key
JsonWindow == 60

RECURSIVE json_desc_after(_, _, _)
json_desc_after(lines, i, j) ==
    IF j > Len(lines) \/ j >= i + JsonWindow THEN <<>>
    ELSE Bind(json_desc(lines[j]), LAMBDA dm :
             IF ~dm.ok THEN json_desc_after(lines, i, j + 1)
             ELSE Bind(normalize_text(dm.desc), LAMBDA desc :
                      IF desc # "" THEN <<Spec3(desc, j, "json_description")>> ELSE <<>>))

RECURSIVE json_from(_, _, _)
json_from(lines, terms, i) ==
    IF i > Len(lines) THEN <<>>
    ELSE (IF json_name_term(lines[i]) \in Range(terms) THEN json_desc_after(lines, i, i) ELSE <<>>)
         \o json_from(lines, terms, i + 1)

\* extract_json_description_near_key
extract_json_description_near_key(lines, terms) == json_from(lines, terms, 1)

(***************************************************************************)
(* Prose fallback and extract_from_file_for_key                            *)
(***************************************************************************)

\* The paragraphs of extract_prose_paragraph_near_match from line i on:
\* [s, e], the first and last line of each, counted from 1.
RECURSIVE paragraphs_from(_, _)
paragraphs_from(lines, i) ==
    Bind({n \in i..Len(lines) : strip(lines[n]) # ""}, LAMBDA filled :
        IF filled = {} THEN <<>>
        ELSE Bind(MinOf(filled), LAMBDA s :
             Bind(MinOf({n \in s..Len(lines) : n + 1 \notin filled}), LAMBDA e :
                 <<[s |-> s, e |-> e]>> \o paragraphs_from(lines, e + 1))))

\* is_prose
is_prose(txt) ==
    \E w \in {"environment variable", "set ", "controls", "configure", "enables", "disable",
              "used to", "specifies"} : Contains(lower(txt), w)

\* The radius of the prose search, and the most other keys a paragraph may mention
ProseMaxRadius == 6
ProseMaxOtherVars == 6

\* The check of one paragraph (index idx) at radius r: its candidate or None.
prose_candidate(lines, code_mask, paragraphs, idx, r, key, terms_re) ==
    Bind(paragraphs[idx], LAMBDA para :
    Bind(strip(join(SubSeq(lines, para.s, para.e), "\n")), LAMBDA txt :
        IF \E n \in para.s..para.e : code_mask[n] THEN None
        ELSE IF txt = "" \/ looks_like_heading(split(txt, "\n")[1]) THEN None
        ELSE IF r = 0 /\ terms_re # None /\ ~re_search(terms_re, txt) THEN None
        ELSE IF r > 0 /\ ~is_prose(txt) THEN None
        ELSE Bind(normalize_text(txt), LAMBDA desc :
                 IF count_other_env_vars(desc, key) > ProseMaxOtherVars THEN None
                 ELSE IF desc = "" THEN None
                 ELSE Spec3(desc, para.s, "prose_paragraph"))))

\* The radius loop with the paragraph to the right tried before the left.
RECURSIVE prose_search_right_first(_, _, _, _, _, _, _)
prose_search_right_first(lines, code_mask, paragraphs, pidx, r, key, terms_re) ==
    Bind(Len(paragraphs), LAMBDA n :
    Bind([idx \in {pidx - r, pidx + r} |->
             IF idx >= 1 /\ idx <= n
             THEN prose_candidate(lines, code_mask, paragraphs, idx, r, key, terms_re)
             ELSE None], LAMBDA cand :
        IF r > ProseMaxRadius \/ (r > pidx - 1 /\ r > n - pidx) THEN None
        ELSE Bind(cand[pidx + r], LAMBDA right :
                 IF right # None THEN right
                 ELSE Bind(IF r = 0 THEN None ELSE cand[pidx - r], LAMBDA left :
                          IF left # None THEN left
                          ELSE prose_search_right_first(lines, code_mask, paragraphs, pidx,
                                                        r + 1, key, terms_re)))))

\* The radius loop of extract_prose_paragraph_near_match from radius r on:
\* at each radius the paragraph to the left, then the one to the right.
RECURSIVE prose_search(_, _, _, _, _, _, _)
prose_search(lines, code_mask, paragraphs, pidx, r, key, terms_re) ==
    Bind(Len(paragraphs), LAMBDA n :
    Bind([idx \in {pidx - r, pidx + r} |->
             IF idx >= 1 /\ idx <= n
             THEN prose_candidate(lines, code_mask, paragraphs, idx, r, key, terms_re)
             ELSE None], LAMBDA cand :
        IF r > ProseMaxRadius \/ (r > pidx - 1 /\ r > n - pidx) THEN None
        ELSE Bind(cand[pidx - r], LAMBDA left :
                 IF left # None THEN left
                 ELSE Bind(IF r = 0 THEN None ELSE cand[pidx + r], LAMBDA right :
                          IF right # None THEN right
                          ELSE prose_search(lines, code_mask, paragraphs, pidx, r + 1, key, terms_re)))))

\* extract_prose_paragraph_near_match; match_line_idx is counted from 0.
extract_prose_paragraph_near_match(lines, code_mask, match_line_idx, key, terms) ==
    Bind(paragraphs_from(lines, 1), LAMBDA paragraphs :
    Bind({j \in DOMAIN paragraphs :
             paragraphs[j].s <= match_line_idx + 1 /\ match_line_idx + 1 <= paragraphs[j].e},
         LAMBDA holding :
        IF paragraphs = <<>> THEN None
        ELSE prose_search(lines, code_mask, paragraphs,
                          IF holding = {} THEN 1 ELSE CHOOSE j \in holding : TRUE,
                          0, key, compile_union_regex(terms))))

\* An Extracted candidate.
Extracted(description, line_number, extractor, fm) ==
    [description |-> description, relpath |-> fm.relpath, line_number |-> line_number,
     extractor |-> extractor, filematch |-> fm]

\* Path(rel).suffix.lower()
path_suffix(rel) ==
    Bind(split(rel, "/"), LAMBDA parts :
    Bind(parts[Len(parts)], LAMBDA name :
    Bind({i \in 2..Len(name) : Ch(name, i) = "."}, LAMBDA dots :
        IF dots = {} THEN ""
        ELSE IF MaxOf(dots) = Len(name) THEN ""
        ELSE lower(SubSeq(name, MaxOf(dots), Len(name))))))

\* The structured extractors extract_from_file_for_key runs for a suffix.
structured_specs(suffix, lines, code_mask, terms) ==
    IF suffix \in {".md", ".mdx"}
    THEN extract_md_definition_list(lines, code_mask, terms)
         \o extract_md_table_description(lines, code_mask, terms)
         \o extract_md_inline_bullet(lines, code_mask, terms)
    ELSE IF suffix \in {".yml", ".yaml"} THEN extract_yaml_description_near_key(lines, terms)
    ELSE IF suffix = ".json" THEN extract_json_description_near_key(lines, terms)
    ELSE <<>>

\* The quality loop of extract_from_file_for_key over the structured candidates.
RECURSIVE accepted_specs(_, _)
accepted_specs(specs, fm) ==
    IF Len(specs) = 0 THEN <<>>
    ELSE Bind(normalize_text(specs[1].desc), LAMBDA desc_n :
             IF passes_quality_bar(desc_n)
             THEN <<Extracted(desc_n, specs[1].line_no, specs[1].extractor, fm)>> ELSE <<>>)
         \o accepted_specs(Tail(specs), fm)

\* The extraction with the prose fallback run whatever the structured
\* extractors gave.
extract_from_file_for_key_with_prose(key, terms, fm, docs_repo) ==
    Bind(read_text(docs_repo, fm.relpath), LAMBDA r :
        IF ~r.ok THEN <<>>
        ELSE Bind(unify_newlines(r.text), LAMBDA content :
             Bind(split(content, "\n"), LAMBDA lines :
             Bind(build_code_context_mask(lines), LAMBDA code_mask :
             Bind(extract_prose_paragraph_near_match(
                      lines, code_mask, count_from(SubSeq(content, 1, fm.match_pos), "\n", 1),
                      key, terms), LAMBDA prose :
                 accepted_specs(structured_specs(path_suffix(fm.relpath), lines, code_mask, terms),
                                fm)
                 \o (IF prose # None /\ passes_quality_bar(prose.desc)
                     THEN <<Extracted(prose.desc, prose.line_no, prose.extractor, fm)>>
                     ELSE <<>>))))))

\* extract_from_file_for_key
extract_from_file_for_key(key, terms, fm, docs_repo) ==
    Bind(read_text(docs_repo, fm.relpath), LAMBDA r :
        IF ~r.ok THEN <<>>
        ELSE Bind(unify_newlines(r.text), LAMBDA content :
             Bind(split(content, "\n"), LAMBDA lines :
             Bind(build_code_context_mask(lines), LAMBDA code_mask :
             Bind(accepted_specs(structured_specs(path_suffix(fm.relpath), lines, code_mask, terms),
                                 fm), LAMBDA extracted :
                 IF extracted # <<>> THEN extracted
                 ELSE Bind(extract_prose_paragraph_near_match(
                               lines, code_mask,
                               count_from(SubSeq(content, 1, fm.match_pos), "\n", 1),
                               key, terms), LAMBDA prose :
                          IF prose # None /\ passes_quality_bar(prose.desc)
                          THEN <<Extracted(prose.desc, prose.line_no, prose.extractor, fm)>>
                          ELSE <<>>))))))

(***************************************************************************)
(* Ranker / deduplicator                                                   *)
(***************************************************************************)

\* A table of ranks with the YAML scalar before the YAML block.
extractor_rank_scalar_first(extractor) ==
    CASE extractor = "md_definition_list" -> 0
      [] extractor = "md_table" -> 1
      [] extractor = "md_inline_bullet" -> 2
      [] extractor = "yaml_description" -> 3
      [] extractor = "yaml_description_block" -> 4
      [] extractor = "json_description" -> 5
      [] extractor = "prose_paragraph" -> 9
      [] OTHER -> 50

\* extractor_rank.get(extractor, 50)
extractor_rank(extractor) ==
    CASE extractor = "md_definition_list" -> 0
      [] extractor = "md_table" -> 1
      [] extractor = "md_inline_bullet" -> 2
      [] extractor = "yaml_description_block" -> 3
      [] extractor = "yaml_description" -> 4
      [] extractor = "json_description" -> 5
      [] extractor = "prose_paragraph" -> 9
      [] OTHER -> 50

\* A ranking key that puts the file's path features before the extractor.
score_path_first(key, ex) ==
    << <<ex.filematch.pass_id>>,
       <<IF ex.filematch.has_lang_hint THEN 0 ELSE 1>>,
       <<ex.filematch.path_keyword_score>>,
       <<extractor_rank(ex.extractor)>>,
       <<count_other_env_vars(ex.description, key)>>,
       <<Len(ex.description)>>,
       StrKey(ex.relpath),
       <<ex.line_number>> >>

\* score(ex) of rank_extracted: ascending is better.
score(key, ex) ==
    << <<extractor_rank(ex.extractor)>>,
       <<ex.filematch.pass_id>>,
       <<IF ex.filematch.has_lang_hint THEN 0 ELSE 1>>,
       <<count_other_env_vars(ex.description, key)>>,
       <<Len(ex.description)>>,
       <<ex.filematch.path_keyword_score>>,
       StrKey(ex.relpath),
       <<ex.line_number>> >>

\* The de-duplication loop of rank_extracted.
RECURSIVE dedupe_extracted(_, _)
dedupe_extracted(extracted, seen_desc) ==
    IF Len(extracted) = 0 THEN <<>>
    ELSE Bind(normalize_for_dedupe(extracted[1].description), LAMBDA k :
             IF k \in seen_desc THEN dedupe_extracted(Tail(extracted), seen_desc)
             ELSE <<extracted[1]>> \o dedupe_extracted(Tail(extracted), seen_desc \cup {k}))

\* rank_extracted
rank_extracted(key, extracted) ==
    dedupe_extracted(list_sort(extracted, [n \in DOMAIN extracted |-> score(key, extracted[n])]), {})

(***************************************************************************)
(* JSON values, the file system and the corpus lister                      *)
(***************************************************************************)

\* A JSON value as json.load returns it: None, a str, an int, a list or a
\* dict (val: the function from the names present to their values).
JNull == [t |-> "null"]
JStr(s) == [t |-> "str", s |-> s]
JInt(n) == [t |-> "int", n |-> n]
JList(items) == [t |-> "list", items |-> items]
JObj(val) == [t |-> "dict", val |-> val]

\* d.get(name)
dict_get(d, name) == IF name \in DOMAIN d.val THEN d.val[name] ELSE JNull

\* isinstance(v, str) and v
is_nonempty_str(v) == v.t = "str" /\ v.s # ""

\* m.get(k) or []
get_or_empty(m, k) == IF k \in DOMAIN m THEN m[k] ELSE <<>>

\* str(n) for n >= 0
RECURSIVE str_int(_)
str_int(n) == IF n < 10 THEN Ch(Digits, n + 1) ELSE str_int(n \div 10) \o Ch(Digits, (n % 10) + 1)

\* max(1, n)
at_least_one(n) == IF n < 1 THEN 1 ELSE n

SOURCE_DOCS == "documentation_same_language"
OUTPUT_FILENAME == "configurations_descriptions_step_2.json"
DOC_EXTENSIONS == {".md", ".mdx", ".yaml", ".yml", ".json"}

PASS1_SEED_DIRS ==
    <<"content/en/tracing", "content/en/serverless", "content/en/profiler", "content/en/security",
      "content/en/opentelemetry", "content/en/continuous_integration">>

PASS2_PATH_KEYWORDS ==
    <<"tracing", "apm", "agent", "serverless", "profiling", "profiler", "opentelemetry", "security",
      "appsec", "civisibility", "continuous_integration", "test", "otel">>

\* A path that is always there.
path_exists_always(node) == TRUE

\* Path.exists() of the input file and of the docs checkout
path_exists(node) == node.exists

\* (docs_repo / root).exists(): the tree holds files only, a directory is
\* there when a file lies beneath it.
root_exists(docs_repo, root) ==
    docs_repo.exists /\ \E p \in DOMAIN docs_repo.tree : HasAt(p, root \o "/", 1)

\* is_pass2_candidate_path
is_pass2_candidate_path(relpath) ==
    \E n \in DOMAIN PASS2_PATH_KEYWORDS : Contains(lower(relpath), PASS2_PATH_KEYWORDS[n])

\* lang_suffix_re finds a language other than "en" in the file name:
\* \.(?P<lang>[a-z]{2})\.(md|mdx)$ , case ignored.
non_english_name(name) ==
    Bind(lower(name), LAMBDA n :
    Bind(IF Len(n) >= 4 /\ HasAt(n, ".mdx", Len(n) - 3) THEN 4
         ELSE IF Len(n) >= 3 /\ HasAt(n, ".md", Len(n) - 2) THEN 3 ELSE 0, LAMBDA ext :
    Bind(Len(n) - ext, LAMBDA e :
        /\ ext > 0 /\ e >= 3
        /\ Ch(n, e - 2) = "."
        /\ \A i \in {e - 1, e} : Ch(n, i) \in CharsOf(LowerLetters)
        /\ SubSeq(n, e - 1, e) # "en")))

\* The filters without the one on the shortcodes of other languages.
admitted_any_shortcode(rel) ==
    Bind(split(rel, "/"), LAMBDA parts :
        /\ ".git" \notin Range(parts)
        /\ path_suffix(rel) \in DOC_EXTENSIONS)

\* The filters of list_doc_files on one path of the tree (every path is a file).
admitted(rel) ==
    Bind(split(rel, "/"), LAMBDA parts :
        /\ ".git" \notin Range(parts)
        /\ path_suffix(rel) \in DOC_EXTENSIONS
        /\ ~(HasAt(rel, "layouts/shortcodes/", 1) /\ non_english_name(parts[Len(parts)])))

\* The loop of list_doc_files over roots[n..]; rglob hands the files beneath
\* a root to the loop in the order they have in rglob_order.
RECURSIVE files_under_roots(_, _, _, _)
files_under_roots(docs_repo, roots, rglob_order, n) ==
    IF n > Len(roots) THEN <<>>
    ELSE (IF root_exists(docs_repo, roots[n])
          THEN SelectSeq(rglob_order, LAMBDA p : HasAt(p, roots[n] \o "/", 1) /\ admitted(p))
          ELSE <<>>)
         \o files_under_roots(docs_repo, roots, rglob_order, n + 1)

\* list_doc_files: the files are named by their docs-repo-relative paths.
list_doc_files(docs_repo, roots, rglob_order) ==
    Bind(files_under_roots(docs_repo, roots, rglob_order, 1), LAMBDA files :
        list_sort(files, [n \in DOMAIN files |-> <<StrKey(files[n])>>]))

\* pass1_roots of main
pass1_roots(docs_repo) ==
    SelectSeq(PASS1_SEED_DIRS, LAMBDA d : root_exists(docs_repo, d))
    \o SelectSeq(<<"layouts/shortcodes", "layouts/partials", "data">>, LAMBDA d : root_exists(docs_repo, d))

\* pass2_roots of main
pass2_roots == <<"content/en", "layouts/shortcodes", "layouts/partials", "data">>

\* key_aliases_from_supported_configurations: supported.entries maps a key to
\* the alias lists of its entries; the aliases are stripped, the empty ones
\* dropped and the rest de-duplicated in order.
key_aliases_from_supported_configurations(supported) ==
    LET flat(k) == dedupe_terms(
                       [n \in DOMAIN supported.entries[k] |-> strip(supported.entries[k][n])], {})
        keys == IF supported.exists THEN {k \in DOMAIN supported.entries : flat(k) # <<>>} ELSE {}
    IN  [k \in keys |-> flat(k)]

(***************************************************************************)
(* main(): the operations of its body                                      *)
(***************************************************************************)

\* The grouping loop of main: only the last entry of a key is kept.
missing_by_key_last(missing_entries) ==
    LET keyed(e) == e.t = "dict" /\ is_nonempty_str(dict_get(e, "key"))
        hits(k) == {n \in DOMAIN missing_entries :
                       keyed(missing_entries[n]) /\ dict_get(missing_entries[n], "key").s = k}
        keys == {dict_get(missing_entries[n], "key").s :
                    n \in {m \in DOMAIN missing_entries : keyed(missing_entries[m])}}
    IN  [k \in keys |-> <<missing_entries[MaxOf(hits(k))]>>]

\* missing_by_key of main: key => its entries, in input order.
missing_by_key(missing_entries) ==
    LET keyed(e) == e.t = "dict" /\ is_nonempty_str(dict_get(e, "key"))
        keys == {dict_get(missing_entries[n], "key").s :
                    n \in {m \in DOMAIN missing_entries : keyed(missing_entries[m])}}
    IN  [k \in keys |->
            SelectSeq(missing_entries, LAMBDA e : keyed(e) /\ dict_get(e, "key").s = k)]

\* The well-formed records of an entry's missingReasons, the last one first.
well_formed_reasons_newest_first(v) ==
    LET ok(r) == r.t = "dict" /\ \A name \in {"source", "reason"} : dict_get(r, name).t = "str"
    IN  Bind(IF v.t = "list" THEN SelectSeq(v.items, ok) ELSE <<>>, LAMBDA kept :
            [n \in DOMAIN kept |->
                JObj([name \in {"source", "reason"} |->
                         dict_get(kept[Len(kept) + 1 - n], name)])])

\* The well-formed {"source", "reason"} records of an entry's missingReasons.
well_formed_reasons(v) ==
    LET ok(r) == r.t = "dict" /\ \A name \in {"source", "reason"} : dict_get(r, name).t = "str"
    IN  Bind(IF v.t = "list" THEN SelectSeq(v.items, ok) ELSE <<>>, LAMBDA kept :
            [n \in DOMAIN kept |->
                JObj([name \in {"source", "reason"} |-> dict_get(kept[n], name)])])

\* Extracted.source_file_ref
source_file_ref(ex) == ex.relpath \o ":" \o str_int(ex.line_number)

\* The results list of a documented record.
results_of(ranked) ==
    [n \in DOMAIN ranked |->
        JObj(("description" :> JStr(ranked[n].description))
             @@ ("shortDescription" :> JStr(""))
             @@ ("source" :> JStr(SOURCE_DOCS))
             @@ ("sourceFile" :> JStr(source_file_ref(ranked[n]))))]

\* The entries of a key that have a non-empty string implementation.
with_implementation(entries) ==
    SelectSeq(entries, LAMBDA e : is_nonempty_str(dict_get(e, "implementation")))

\* The documented records main appends for a key that has results.
documented_records(key, entries, results) ==
    Bind(with_implementation(entries), LAMBDA es :
        [n \in DOMAIN es |->
            Bind(well_formed_reasons(dict_get(es[n], "missingReasons")), LAMBDA ms :
                JObj(("key" :> JStr(key))
                     @@ ("implementation" :> dict_get(es[n], "implementation"))
                     @@ ("results" :> JList(results))
                     @@ (IF ms # <<>> THEN "missingSources" :> JList(ms) ELSE <<>>)))])

\* A reason code that never reports a quality rejection.
reason_code_not_found(file_matches) == "not_found"

\* reason = "not_found" if not file_matches else "quality"
reason_code(file_matches) == IF file_matches = <<>> THEN "not_found" ELSE "quality"

\* The missing records main appends for a key that has no result.
missing_records(key, entries, reason) ==
    Bind(with_implementation(entries), LAMBDA es :
        [n \in DOMAIN es |->
            JObj(("key" :> JStr(key)) @@ ("implementation" :> dict_get(es[n], "implementation"))
                 @@ ("missingReasons" :>
                        JList(Append(well_formed_reasons(dict_get(es[n], "missingReasons")),
                                     JObj(("source" :> JStr(SOURCE_DOCS))
                                          @@ ("reason" :> JStr(reason)))))))])

\* The candidates cut to max_results before they are ranked.
ranked_results_cut_first(key, extracted_all, max_results) ==
    rank_extracted(key, Take(extracted_all, max_results))

\* main, lines 965-966: ranked = rank_extracted(key, extracted_all)[:max_results]
ranked_results(key, extracted_all, max_results) ==
    Take(rank_extracted(key, extracted_all), max_results)

\* The extraction loop without its early stop.
RECURSIVE extract_all_unbounded(_, _, _, _, _, _)
extract_all_unbounded(key, terms, file_matches, docs_repo, acc, limit) ==
    IF Len(file_matches) = 0 THEN acc
    ELSE Bind(extract_from_file_for_key(key, terms, file_matches[1], docs_repo), LAMBDA got :
             extract_all_unbounded(key, terms, Tail(file_matches), docs_repo,
                                   [extracted |-> acc.extracted \o got, log |-> acc.log], limit))

\* The extraction loop of main over the file matches of a key, with its
\* early stop: [extracted, log], log being the debug lines of
\* extract_from_file_for_key.
RECURSIVE extract_all(_, _, _, _, _, _)
extract_all(key, terms, file_matches, docs_repo, acc, limit) ==
    IF Len(file_matches) = 0 THEN acc
    ELSE Bind(extract_from_file_for_key(key, terms, file_matches[1], docs_repo), LAMBDA got :
         Bind(Take(got, 3), LAMBDA shown :
         Bind([extracted |-> acc.extracted \o got,
               log |-> acc.log \o [n \in DOMAIN shown |->
                          "[debug] " \o key \o " -> " \o shown[n].extractor \o " "
                          \o source_file_ref(shown[n])]], LAMBDA acc2 :
             IF Len(acc2.extracted) >= limit THEN acc2
             ELSE extract_all(key, terms, Tail(file_matches), docs_repo, acc2, limit))))

\* The sort key of the two output lists: (c.get("key", ""), c.get("implementation", ""));
\* step 1 writes both as strings.
record_sort_key(c) ==
    LET field(name) == IF dict_get(c, name).t = "str" THEN StrKey(dict_get(c, name).s) ELSE <<>>
    IN  <<field("key"), field("implementation")>>

sort_records(records) == list_sort(records, [n \in DOMAIN records |-> record_sort_key(records[n])])

\* output_obj of main
output_obj(lang, documented_out, missing_out) ==
    JObj(("lang" :> JStr(lang))
         @@ ("missingCount" :> JInt(Len(missing_out)))
         @@ ("documentedCount" :> JInt(Len(documented_out)))
         @@ ("documentedConfigurations" :> JList(documented_out))
         @@ ("missingConfigurations" :> JList(missing_out)))

\* The progress lines scan_for_file_matches prints under --debug.
scan_debug_lines(files, pass_id) ==
    Bind([n \in DOMAIN files |->
             IF n = 1 \/ n % 500 = 0 \/ n = Len(files)
             THEN "[scan pass" \o str_int(pass_id) \o "] " \o str_int(n) \o "/"
                  \o str_int(Len(files)) \o " " \o files[n]
             ELSE ""], LAMBDA lines :
        SelectSeq(lines, LAMBDA l : l # ""))

\* json.dump(data, f, indent=2): the chunks it writes, one after the other
\* (the braces, and one chunk for each member of the object in order).
json_chunks(data) ==
    LET names == <<"lang", "missingCount", "documentedCount", "documentedConfigurations",
                   "missingConfigurations">>
    IN  <<[text |-> "{", value |-> JNull]>>
        \o [n \in DOMAIN names |-> [text |-> names[n], value |-> data.val[names[n]]]]
        \o <<[text |-> "}", value |-> JNull]>>

\* The text of a complete output file: the document and the final newline.
json_text(data) == Append(json_chunks(data), [text |-> "\n", value |-> JNull])

\* path.with_suffix(path.suffix + ".tmp") taken to be the path itself.
tmp_path_in_place(path) == path

\* tmp = path.with_suffix(path.suffix + ".tmp")
tmp_path(path) == path \o ".tmp"

\* The file at a path: [exists, content]
file_at(files, path) ==
    IF path \in DOMAIN files THEN [exists |-> TRUE, content |-> files[path]]
    ELSE [exists |-> FALSE, content |-> <<>>]

\* The files after content is written to path.
with_file(files, path, content) ==
    [p \in DOMAIN files \cup {path} |-> IF p = path THEN content ELSE files[p]]

\* os.replace(src, dst)
os_replace(files, src, dst) ==
    [p \in (DOMAIN files \ {src}) \cup {dst} |-> IF p = dst THEN files[src] ELSE files[p]]

(***************************************************************************)
(* Spec: one invocation of step 2 after the other over the same inputs     *)
(***************************************************************************)

\* Bound: the number of invocations.
MaxRuns == 2

\* output_path = output_dir / OUTPUT_FILENAME
output_path == argv.output \o "/" \o OUTPUT_FILENAME

\* The locals of main() before it runs (exit_code -1: still running).
Frame0 ==
    [exit_code |-> -1, stderr |-> <<>>, missing_by_key |-> <<>>, documented_entries |-> <<>>,
     keys_to_find |-> <<>>, key_to_terms |-> <<>>, alias_term_to_key |-> <<>>,
     pass1_files |-> <<>>, pass2_files |-> <<>>, pass1_matches |-> <<>>, pass2_matches |-> <<>>,
     remaining |-> <<>>, key_index |-> 0, per_key |-> <<>>, documented_out |-> <<>>,
     missing_out |-> <<>>, output_obj |-> JNull, written |-> 0]

\* What an invocation leaves behind, and the arguments it ran with.
RunResult ==
    [argv |-> argv, stderr |-> frame.stderr,
     exit_code |-> frame.exit_code, output |-> file_at(fs.files, output_path),
     pass1_matches |-> frame.pass1_matches, pass2_matches |-> frame.pass2_matches,
     per_key |-> frame.per_key, output_obj |-> frame.output_obj]

\* return code / uncaught exception: the process ends with this status,
\* the lines added to stderr.
Exit(code, lines) ==
    /\ pc' = "exit"
    /\ frame' = [frame EXCEPT !.exit_code = code, !.stderr = @ \o lines]

Traceback(exception) == <<"Traceback (most recent call last):", exception>>

\* main, lines 870-875: the two existence checks.
CheckInputs ==
    /\ pc = "start"
    /\ IF ~path_exists(fs.input)
       THEN Exit(2, <<"error: input file not found: " \o argv.input>>)
       ELSE IF ~path_exists(fs.docs)
       THEN Exit(2, <<"error: docs repo not found: " \o argv.docs_repo>>)
       ELSE pc' = "load" /\ UNCHANGED frame
    /\ UNCHANGED <<call, ret, fs, argv, hist>>

\* main, lines 877-900: load_json, the shape check, the grouping of the
\* missing entries and the term index.
LoadCatalog ==
    /\ pc = "load"
    /\ IF ~fs.input.exists THEN Exit(1, Traceback("FileNotFoundError"))
       ELSE IF ~fs.input.parses THEN Exit(1, Traceback("json.decoder.JSONDecodeError"))
       ELSE IF fs.input.value.t # "dict" THEN Exit(1, Traceback("AttributeError"))
       ELSE IF \E name \in {"missingConfigurations", "documentedConfigurations"} :
                   dict_get(fs.input.value, name).t # "list"
       THEN Exit(2, <<"error: input JSON does not look like step 1 output (missingConfigurations/documentedConfigurations)">>)
       ELSE \E missing_entries \in {dict_get(fs.input.value, "missingConfigurations").items},
               documented_entries \in {dict_get(fs.input.value, "documentedConfigurations").items} :
            \E by_key \in {missing_by_key(missing_entries)} :
            \E keys \in {sorted_set(DOMAIN by_key)} :
            \E idx \in {build_search_terms(
                            keys, key_aliases_from_supported_configurations(fs.supported))} :
                /\ pc' = "list"
                /\ frame' = [frame EXCEPT
                       !.missing_by_key = by_key,
                       !.documented_entries = documented_entries,
                       !.keys_to_find = keys,
                       !.key_to_terms = idx.key_to_terms,
                       !.alias_term_to_key = idx.alias_term_to_key,
                       !.stderr = @ \o <<"Loaded step 1 output: documented="
                                         \o str_int(Len(documented_entries)) \o ", missing="
                                         \o str_int(Len(missing_entries)),
                                         "Step 2 will attempt to document " \o str_int(Len(keys))
                                         \o " unique missing keys">>]
    /\ UNCHANGED <<call, ret, fs, argv, hist>>

\* The orders in which a traversal can hand over the paths of S.
RECURSIVE Orders(_)
Orders(S) ==
    IF S = {} THEN {<<>>} ELSE UNION {{<<p>> \o rest : rest \in Orders(S \ {p})} : p \in S}

\* main, lines 902-914: the two corpora; the traversal order is the file
\* system's choice.
ListFiles ==
    /\ pc = "list"
    /\ \E rglob_order \in Orders(DOMAIN fs.docs.tree) :
       \E files \in {[pass \in 1..2 |->
                        list_doc_files(fs.docs, <<pass1_roots(fs.docs), pass2_roots>>[pass],
                                       rglob_order)]} :
       \E pass2_files \in {SelectSeq(files[2], is_pass2_candidate_path)} :
           frame' = [frame EXCEPT
               !.pass1_files = files[1],
               !.pass2_files = pass2_files,
               !.stderr = @ \o <<"Docs corpus pass1=" \o str_int(Len(files[1]))
                                 \o " files, pass2=" \o str_int(Len(pass2_files))
                                 \o " files (filtered)">>]
    /\ pc' = "scan1"
    /\ UNCHANGED <<call, ret, fs, argv, hist>>

\* A scan that under --debug leaves out the files it prints a progress line
\* for.
scan_pass_debug_skips(files, keys, pass_id) ==
    [matches |-> scan_for_file_matches(
                     IF argv.debug
                     THEN SelectSeq(files, LAMBDA p :
                              \A n \in DOMAIN files :
                                  files[n] = p => ~(n = 1 \/ n % 500 = 0 \/ n = Len(files)))
                     ELSE files,
                     fs.docs.tree, argv.lang, keys, frame.key_to_terms,
                     frame.alias_term_to_key, pass_id, at_least_one(argv.max_files_per_key)),
     log |-> IF argv.debug THEN scan_debug_lines(files, pass_id) ELSE <<>>]

\* One call of scan_for_file_matches by main, with the progress lines it
\* prints under --debug: [matches, log].
scan_pass(files, keys, pass_id) ==
    [matches |-> scan_for_file_matches(files, fs.docs.tree, argv.lang, keys, frame.key_to_terms,
                                       frame.alias_term_to_key, pass_id,
                                       at_least_one(argv.max_files_per_key)),
     log |-> IF argv.debug THEN scan_debug_lines(files, pass_id) ELSE <<>>]

\* main, lines 916-929: pass 1 for all keys.
ScanPass1 ==
    /\ pc = "scan1"
    /\ \E scan \in {scan_pass(frame.pass1_files, frame.keys_to_find, 1)} :
           frame' = [frame EXCEPT !.pass1_matches = scan.matches, !.stderr = @ \o scan.log]
    /\ pc' = "scan2"
    /\ UNCHANGED <<call, ret, fs, argv, hist>>

\* main, lines 931-949: pass 2 for the keys pass 1 left without a match.
ScanPass2 ==
    /\ pc = "scan2"
    /\ \E remaining \in {SelectSeq(frame.keys_to_find,
                                   LAMBDA k : get_or_empty(frame.pass1_matches, k) = <<>>)} :
       \E scan \in {IF remaining # <<>> THEN scan_pass(frame.pass2_files, remaining, 2)
                    ELSE [matches |-> <<>>, log |-> <<>>]} :
           frame' = [frame EXCEPT
               !.remaining = remaining,
               !.pass2_matches = scan.matches,
               !.stderr = @ \o scan.log,
               !.documented_out = SelectSeq(frame.documented_entries, LAMBDA e : e.t = "dict"),
               !.missing_out = <<>>,
               !.key_index = 1]
    /\ pc' = "keys"
    /\ UNCHANGED <<call, ret, fs, argv, hist>>

\* main, lines 953-1021: one turn of the loop over keys_to_find.
ProcessKey ==
    /\ pc = "keys"
    /\ frame.key_index <= Len(frame.keys_to_find)
    /\ \E key \in {frame.keys_to_find[frame.key_index]} :
       \E found \in {[pass \in 1..2 |->
                        get_or_empty(<<frame.pass1_matches, frame.pass2_matches>>[pass], key)]} :
       \E file_matches \in {list_sort(found[1] \o found[2],
                                      [n \in DOMAIN (found[1] \o found[2]) |->
                                          sort_key((found[1] \o found[2])[n])])} :
       \E max_results \in {at_least_one(argv.max_results_per_key)} :
       \E all \in {extract_all(key, frame.key_to_terms[key], file_matches, fs.docs.tree,
                               [extracted |-> <<>>, log |-> <<>>], max_results * 6)} :
       \E ranked \in {ranked_results(key, all.extracted, max_results)} :
       \E reason \in {reason_code(file_matches)} :
       \E log \in {IF ~argv.debug THEN <<>>
                   ELSE all.log \o
                        (IF ranked # <<>>
                         THEN <<"[debug] " \o key \o ": selected " \o str_int(Len(ranked))
                                \o " candidates from "
                                \o join([n \in DOMAIN ranked |-> source_file_ref(ranked[n])], ", ")>>
                         ELSE <<"[debug] " \o key \o ": missing (" \o reason \o "), file_matches="
                                \o str_int(Len(file_matches)) \o ", extracted="
                                \o str_int(Len(all.extracted))>>)} :
           frame' = [frame EXCEPT
               !.documented_out =
                   IF ranked # <<>>
                   THEN @ \o documented_records(key, frame.missing_by_key[key], results_of(ranked))
                   ELSE @,
               !.missing_out =
                   IF ranked # <<>> THEN @
                   ELSE @ \o missing_records(key, frame.missing_by_key[key], reason),
               !.per_key = [k \in DOMAIN frame.per_key \cup {key} |->
                               IF k = key
                               THEN [file_matches |-> file_matches, extracted |-> all.extracted,
                                     ranked |-> ranked]
                               ELSE frame.per_key[k]],
               !.stderr = @ \o log,
               !.key_index = @ + 1]
    /\ UNCHANGED <<pc, call, ret, fs, argv, hist>>

\* main, lines 1023-1032: the two sorts and output_obj.
Assemble ==
    /\ pc = "keys"
    /\ frame.key_index > Len(frame.keys_to_find)
    /\ \E sorted \in {[out \in {"documented", "missing"} |->
                         sort_records(IF out = "documented" THEN frame.documented_out
                                      ELSE frame.missing_out)]} :
           frame' = [frame EXCEPT
               !.documented_out = sorted["documented"],
               !.missing_out = sorted["missing"],
               !.output_obj = output_obj(argv.lang, sorted["documented"], sorted["missing"])]
    /\ pc' = "mkdir"
    /\ UNCHANGED <<call, ret, fs, argv, hist>>

\* atomic_write_json, line 91: path.parent.mkdir(parents=True, exist_ok=True)
Mkdir ==
    /\ pc = "mkdir"
    /\ fs' = [fs EXCEPT !.dirs = @ \cup {argv.output}]
    /\ pc' = "open"
    /\ UNCHANGED <<call, ret, argv, frame, hist>>

\* atomic_write_json, line 93: tmp.open("w") creates the file or empties it.
OpenTmp ==
    /\ pc = "open"
    /\ fs' = [fs EXCEPT !.files = with_file(@, tmp_path(output_path), <<>>)]
    /\ frame' = [frame EXCEPT !.written = 0]
    /\ pc' = "dump"
    /\ UNCHANGED <<call, ret, argv, hist>>

\* atomic_write_json, line 94: json.dump writes the next chunk.
DumpChunk ==
    /\ pc = "dump"
    /\ frame.written < Len(json_chunks(frame.output_obj))
    /\ fs' = [fs EXCEPT !.files =
                 with_file(@, tmp_path(output_path),
                           Append(@[tmp_path(output_path)],
                                  json_chunks(frame.output_obj)[frame.written + 1]))]
    /\ frame' = [frame EXCEPT !.written = @ + 1]
    /\ UNCHANGED <<pc, call, ret, argv, hist>>

\* atomic_write_json, line 95: f.write("\n")
WriteNewline ==
    /\ pc = "dump"
    /\ frame.written = Len(json_chunks(frame.output_obj))
    /\ fs' = [fs EXCEPT !.files =
                 with_file(@, tmp_path(output_path),
                           Append(@[tmp_path(output_path)], [text |-> "\n", value |-> JNull]))]
    /\ pc' = "close"
    /\ UNCHANGED <<call, ret, argv, frame, hist>>

\* atomic_write_json: the with block ends and the temporary file is closed.
CloseTmp ==
    /\ pc = "close"
    /\ pc' = "replace"
    /\ UNCHANGED <<call, ret, fs, argv, frame, hist>>

\* atomic_write_json, line 96: os.replace(tmp, path)
Replace ==
    /\ pc = "replace"
    /\ fs' = [fs EXCEPT !.files = os_replace(@, tmp_path(output_path), output_path)]
    /\ pc' = "wrote"
    /\ UNCHANGED <<call, ret, argv, frame, hist>>

\* main, lines 1035-1036: the closing line and return 0.
Finish ==
    /\ pc = "wrote"
    /\ Exit(0, <<"Wrote " \o output_path \o " (documented=" \o str_int(Len(frame.documented_out))
                 \o ", missing=" \o str_int(Len(frame.missing_out)) \o ")">>)
    /\ UNCHANGED <<call, ret, fs, argv, hist>>

\* The process is killed inside atomic_write_json. While the temporary file
\* is open, what was written to it may have reached the disk in part only.
Crash ==
    /\ pc \in {"mkdir", "open", "dump", "close", "replace"}
    /\ IF pc \in {"dump", "close"}
       THEN \E n \in 0..Len(fs.files[tmp_path(output_path)]) :
                fs' = [fs EXCEPT !.files =
                          with_file(@, tmp_path(output_path),
                                    SubSeq(@[tmp_path(output_path)], 1, n))]
       ELSE UNCHANGED fs
    /\ pc' = "crashed"
    /\ UNCHANGED <<call, ret, argv, frame, hist>>

\* The command is invoked again over the same inputs with the same arguments,
\* with or without --debug.
Rerun ==
    /\ pc = "exit"
    /\ hist.run < MaxRuns
    /\ hist' = [run |-> hist.run + 1,
                before |-> file_at(fs.files, output_path),
                first |-> IF hist.run = 1 THEN RunResult ELSE hist.first]
    /\ \E debug \in BOOLEAN : argv' = [argv EXCEPT !.debug = debug]
    /\ frame' = Frame0
    /\ pc' = "start"
    /\ UNCHANGED <<call, ret, fs>>

Next ==
    \/ CheckInputs \/ LoadCatalog \/ ListFiles \/ ScanPass1 \/ ScanPass2 \/ ProcessKey \/ Assemble
    \/ Mkdir \/ OpenTmp \/ DumpChunk \/ WriteNewline \/ CloseTmp \/ Replace \/ Finish
    \/ Crash \/ Rerun

(***************************************************************************)
(* The inputs of Spec                                                      *)
(***************************************************************************)

\* Three files of a documentation checkout: two of the curated tracing
\* subtree (one with the language in its name) and one that only pass 2 sees.
GoPage == "content/en/tracing/go.md"
SetupPage == "content/en/tracing/setup.md"
AgentPage == "content/en/agent/config.md"

\* A definition list for DD_A; a placeholder for DD_B; a text that only
\* names the alias DD_OLD; two prose paragraphs.
TextDefinition == "^DD_A^\n: Enables the tracer for this service."
TextPlaceholder == "^DD_B^\n: TBD"
TextAlias == "DD_OLD is deprecated, use the new setting instead of it."
TextSetup == "Set DD_A or DD_B to configure sampling of traces."
TextAgent == "Set DD_B to configure the sampling of the agent."

DocFile(content, readable) == [content |-> content, readable |-> readable]

NoTree == [p \in {} |-> DocFile("", TRUE)]

OneFile(path, file) == [p \in {path} |-> file]

GoChoices ==
    {NoTree, OneFile(GoPage, DocFile(TextDefinition, FALSE))}
    \cup {OneFile(GoPage, DocFile(t, TRUE)) : t \in {TextDefinition, TextPlaceholder, TextAlias}}

SetupChoices == {NoTree, OneFile(SetupPage, DocFile(TextSetup, TRUE))}

AgentChoices == {NoTree, OneFile(AgentPage, DocFile(TextAgent, TRUE))}

Trees ==
    {[p \in DOMAIN a \cup DOMAIN b \cup DOMAIN c |->
         IF p \in DOMAIN a THEN a[p] ELSE IF p \in DOMAIN b THEN b[p] ELSE c[p]] :
        a \in GoChoices, b \in SetupChoices, c \in AgentChoices}

NoDocs == [exists |-> FALSE, tree |-> NoTree]

Docs(tree) == [exists |-> TRUE, tree |-> tree]

\* The records step 1 writes.
PriorReason == JObj(("source" :> JStr("registry_doc")) @@ ("reason" :> JStr("not_found")))

MissingEntry(key, impl) ==
    JObj(("key" :> JStr(key)) @@ ("implementation" :> JStr(impl))
         @@ ("missingReasons" :> JList(<<PriorReason>>)))

\* An entry that two earlier stages rejected, with a stray string between
\* the two reasons.
QualityReason == JObj(("source" :> JStr("registry_doc")) @@ ("reason" :> JStr("quality")))

RejectedTwice(key, impl) ==
    JObj(("key" :> JStr(key)) @@ ("implementation" :> JStr(impl))
         @@ ("missingReasons" :> JList(<<QualityReason, JStr("stale"), PriorReason>>)))

DocumentedEntry ==
    JObj(("key" :> JStr("DD_C")) @@ ("implementation" :> JStr("A"))
         @@ ("results" :> JList(<<JObj(("description" :> JStr("Registry text."))
                                       @@ ("source" :> JStr("registry_doc")))>>)))

Catalog(missing, documented) ==
    JObj(("lang" :> JStr("golang"))
         @@ ("missingConfigurations" :> missing)
         @@ ("documentedConfigurations" :> documented))

\* A catalog as step 1 leaves it, and one with entries of other shapes: a
\* string, an empty key, an empty implementation, no missingReasons, and one
\* key with two implementations.
PlainCatalog ==
    Catalog(JList(<<MissingEntry("DD_A", "A"), MissingEntry("DD_B", "A")>>),
            JList(<<DocumentedEntry>>))

MixedCatalog ==
    Catalog(JList(<<JStr("DD_A"),
                    MissingEntry("", "A"),
                    MissingEntry("DD_B", ""),
                    RejectedTwice("DD_A", "B"),
                    JObj(("key" :> JStr("DD_A")) @@ ("implementation" :> JStr("A")))>>),
            JList(<<JInt(0), DocumentedEntry>>))

InputFile(value) == [exists |-> TRUE, parses |-> TRUE, value |-> value]

\* No input file; a file that is not JSON; JSON that is not an object; an
\* object whose missingConfigurations is not a list.
BadInputs ==
    {[exists |-> FALSE, parses |-> FALSE, value |-> JNull],
     [exists |-> TRUE, parses |-> FALSE, value |-> JNull],
     InputFile(JList(<<MissingEntry("DD_A", "A")>>)),
     InputFile(Catalog(JNull, JList(<<>>)))}

\* internal/env/supported_configurations.json: absent; DD_OLD an alias of
\* DD_A; DD_OLD an alias of both keys.
NoSupported == [exists |-> FALSE, entries |-> [k \in {} |-> <<>>]]

Supporteds ==
    {NoSupported,
     [exists |-> TRUE, entries |-> [k \in {"DD_A"} |-> <<"DD_OLD">>]],
     [exists |-> TRUE, entries |-> [k \in {"DD_A", "DD_B"} |-> <<"DD_OLD", " DD_OLD ", "">>]]}

DefaultArgv ==
    [lang |-> "golang", input |-> "result/configurations_descriptions_step_1.json",
     docs_repo |-> "documentation", output |-> "result",
     max_results_per_key |-> 3, max_files_per_key |-> 30, debug |-> FALSE]

Argvs == {DefaultArgv, [DefaultArgv EXCEPT !.max_results_per_key = 0, !.max_files_per_key = 0, !.debug = TRUE]}

NoFiles == [p \in {} |-> <<>>]

\* The artifact an earlier invocation left at the output path.
OldFiles ==
    [p \in {DefaultArgv.output \o "/" \o OUTPUT_FILENAME} |-> json_text(output_obj("golang", <<>>, <<>>))]

\* The input-shape cases, and the corpus cases.
ShapeConfigs ==
    {[argv |-> DefaultArgv,
      fs |-> [input |-> i, docs |-> d, supported |-> NoSupported,
              dirs |-> IF f = NoFiles THEN {} ELSE {DefaultArgv.output}, files |-> f]] :
        i \in BadInputs \cup {InputFile(PlainCatalog)},
        d \in {NoDocs, Docs(OneFile(GoPage, DocFile(TextDefinition, TRUE)))},
        f \in {NoFiles, OldFiles}}

CorpusConfigs ==
    {[argv |-> a,
      fs |-> [input |-> InputFile(c), docs |-> Docs(t), supported |-> s, dirs |-> {},
              files |-> NoFiles]] :
        a \in Argvs, c \in {PlainCatalog, MixedCatalog}, t \in Trees, s \in Supporteds}

Init ==
    /\ pc = "start"
    /\ call = None
    /\ ret = None
    /\ \E c \in ShapeConfigs \cup CorpusConfigs : argv = c.argv /\ fs = c.fs
    /\ frame = Frame0
    /\ hist = [run |-> 1, before |-> file_at(fs.files, output_path), first |-> None]

Spec == Init /\ [][Next]_vars

(***************************************************************************)
(* SpecRuns: two invocations over corpora of three files                   *)
(***************************************************************************)

\* go.md holds the definition list or names the alias; setup.md and
\* config.md are there.
FullTrees == {t \in Trees : Cardinality(DOMAIN t) = 3 /\ t[GoPage].readable
                            /\ t[GoPage].content \in {TextDefinition, TextAlias}}

RunsConfigs ==
    {[argv |-> a,
      fs |-> [input |-> InputFile(c), docs |-> Docs(t), supported |-> s, dirs |-> {},
              files |-> NoFiles]] :
        a \in Argvs, c \in {PlainCatalog}, t \in FullTrees,
        s \in {s \in Supporteds : Cardinality(DOMAIN s.entries) # 1}}

InitRuns ==
    /\ pc = "start"
    /\ call = None
    /\ ret = None
    /\ \E c \in RunsConfigs : argv = c.argv /\ fs = c.fs
    /\ frame = Frame0
    /\ hist = [run |-> 1, before |-> file_at(fs.files, output_path), first |-> None]

SpecRuns == InitRuns /\ [][Next]_vars

(***************************************************************************)
(* SpecCorpus: invocations over checkouts with files of every kind         *)
(***************************************************************************)

\* Bound: the most files a checkout of SpecCorpus holds.
MaxTreeFiles == 3

\* A page of the tracing subtree; a YAML file that only pass 2 sees; a page
\* with no keyword in its path; a French page outside the roots; a French
\* and an English shortcode; a file under .git; an image.
CorpusPaths ==
    {"content/en/tracing/go.md", "content/en/agent/config.yaml", "content/en/glossary/terms.md",
     "content/fr/tracing/go.md", "layouts/shortcodes/apm.fr.md", "layouts/shortcodes/apm.en.md",
     "content/en/.git/tracing.md", "content/en/tracing/logo.png"}

CorpusTrees ==
    {[p \in D |-> DocFile(TextSetup, TRUE)] :
        D \in {D \in SUBSET CorpusPaths : Cardinality(D) <= MaxTreeFiles}}

\* Six bullets for DD_A in go.md, and its definition list in setup.md.
TextBullet == "- ^DD_A^: Sampling rate of the traces."

TextBullets ==
    TextBullet \o "\n" \o TextBullet \o "\n" \o TextBullet \o "\n"
    \o TextBullet \o "\n" \o TextBullet \o "\n" \o TextBullet

BulletsTree ==
    [p \in {GoPage, SetupPage} |->
        IF p = GoPage THEN DocFile(TextBullets, TRUE) ELSE DocFile(TextDefinition, TRUE)]

CorpusShapeConfigs ==
    {[argv |-> a,
      fs |-> [input |-> InputFile(PlainCatalog), docs |-> Docs(t), supported |-> NoSupported,
              dirs |-> {}, files |-> NoFiles]] :
        <<a, t>> \in ({DefaultArgv} \X CorpusTrees)
                     \cup {<<[DefaultArgv EXCEPT !.max_results_per_key = m], BulletsTree>> :
                              m \in {1, 3}}}

InitCorpus ==
    /\ pc = "start"
    /\ call = None
    /\ ret = None
    /\ \E c \in CorpusShapeConfigs : argv = c.argv /\ fs = c.fs
    /\ frame = Frame0
    /\ hist = [run |-> 1, before |-> file_at(fs.files, output_path), first |-> None]

SpecCorpus == InitCorpus /\ [][Next]_vars

(***************************************************************************)
(* Properties of main()                                                    *)
(***************************************************************************)

\* The input catalog is an object with the two lists main asks for.
WellShaped ==
    /\ fs.input.exists /\ fs.input.parses /\ fs.input.value.t = "dict"
    /\ \A name \in {"missingConfigurations", "documentedConfigurations"} :
           dict_get(fs.input.value, name).t = "list"

InputMissing == dict_get(fs.input.value, "missingConfigurations").items
InputDocumented == dict_get(fs.input.value, "documentedConfigurations").items
OutDocumented == dict_get(frame.output_obj, "documentedConfigurations").items
OutMissing == dict_get(frame.output_obj, "missingConfigurations").items

\* The output object is assembled.
Assembled == frame.output_obj # JNull

IsPaired(e) ==
    /\ e.t = "dict"
    /\ is_nonempty_str(dict_get(e, "key"))
    /\ is_nonempty_str(dict_get(e, "implementation"))

HasPair(e, p) == e.t = "dict" /\ <<dict_get(e, "key"), dict_get(e, "implementation")>> = p

CountOf(list, P(_)) == Cardinality({n \in DOMAIN list : P(list[n])})

\* The records of a list of the output with the pair p that main made (the
\* documented list starts as a copy of the input's).
MadeFor(outlist, p) == CountOf(outlist, LAMBDA r : HasPair(r, p))

HasDocsReason(r) ==
    /\ dict_get(r, "missingReasons").t = "list"
    /\ \E n \in DOMAIN dict_get(r, "missingReasons").items :
           dict_get(dict_get(r, "missingReasons").items[n], "source") = JStr(SOURCE_DOCS)

HasResults(r) == dict_get(r, "results").t = "list" /\ dict_get(r, "results").items # <<>>

\* The output file at this moment.
OutputFile == file_at(fs.files, output_path)

\* C2: a key with no pass-1 FileMatch is among the keys pass 2 scans, and the
\* FileMatch list used for the extraction of a key that has a pass-1
\* FileMatch holds no FileMatch of pass 2.
C2_PassEscalation ==
    /\ pc = "keys" =>
           \A n \in DOMAIN frame.keys_to_find :
               get_or_empty(frame.pass1_matches, frame.keys_to_find[n]) = <<>>
                   => frame.keys_to_find[n] \in Range(frame.remaining)
    /\ \A k \in DOMAIN frame.per_key :
           get_or_empty(frame.pass1_matches, k) # <<>>
               => \A i \in DOMAIN frame.per_key[k].file_matches :
                      frame.per_key[k].file_matches[i].pass_id # 2

\* C3: a second run with the same arguments over the same inputs ends with
\* the same exit status, FileMatch lists, candidates, results and output
\* object as the first, whatever the order rglob handed the files over in.
C3_Determinism ==
    (pc = "exit" /\ hist.run >= 2 /\ argv = hist.first.argv) =>
        /\ frame.exit_code = hist.first.exit_code
        /\ frame.pass1_matches = hist.first.pass1_matches
        /\ frame.pass2_matches = hist.first.pass2_matches
        /\ frame.per_key = hist.first.per_key
        /\ frame.output_obj = hist.first.output_obj
        /\ frame.stderr = hist.first.stderr

\* C3 witness: the second run over a corpus of three files, two of which
\* gave the key DD_A a result, has ended like the first.
C3_Witness ==
    /\ pc = "exit" /\ hist.run >= 2 /\ argv = hist.first.argv
    /\ Cardinality(DOMAIN fs.docs.tree) = 3
    /\ "DD_A" \in DOMAIN frame.per_key
    /\ Len(frame.per_key["DD_A"].ranked) = 2
    /\ frame.output_obj = hist.first.output_obj

\* C6: every missing entry of the input with a non-empty string key and
\* implementation has exactly one record in the output: as many records with
\* its pair were made as the input has missing entries with that pair, all of
\* them in one list, the documented ones with results and the missing ones
\* with a documentation_same_language reason.
C6_Completeness ==
    Assembled =>
        \A n \in DOMAIN InputMissing : IsPaired(InputMissing[n]) =>
            \E p \in {<<dict_get(InputMissing[n], "key"),
                        dict_get(InputMissing[n], "implementation")>>} :
            \E made \in {MadeFor(OutDocumented, p) - MadeFor(InputDocumented, p)},
               kept \in {MadeFor(OutMissing, p)} :
                /\ made + kept = MadeFor(InputMissing, p)
                /\ made = 0 \/ kept = 0
                /\ \A i \in DOMAIN OutDocumented :
                       HasPair(OutDocumented[i], p) => HasResults(OutDocumented[i])
                /\ \A i \in DOMAIN OutMissing :
                       HasPair(OutMissing[i], p) => HasDocsReason(OutMissing[i])

\* C6 witness: of a key with two implementations and of another key, one was
\* documented and the other stayed missing.
C6_Witness ==
    /\ Assembled
    /\ fs.input.value = MixedCatalog
    /\ MadeFor(OutDocumented, <<JStr("DD_A"), JStr("A")>>) = 1
    /\ MadeFor(OutDocumented, <<JStr("DD_A"), JStr("B")>>) = 1
    /\ MadeFor(OutMissing, <<JStr("DD_A"), JStr("A")>>) = 0

\* The reason main appended to a missing record: the last of its reasons.
AppendedReason(r) ==
    dict_get(r, "missingReasons").items[Len(dict_get(r, "missingReasons").items)]

HasFileMatch(k) ==
    get_or_empty(frame.pass1_matches, k) # <<>> \/ get_or_empty(frame.pass2_matches, k) # <<>>

\* C7: the reason appended to a missing record is not_found exactly when its
\* key has no FileMatch in either pass, and quality exactly when it has one
\* and no candidate survived extraction and the quality filter.
C7_ReasonCodes ==
    Assembled =>
        \A n \in DOMAIN OutMissing :
            \E k \in {dict_get(OutMissing[n], "key").s} :
            \E r \in {AppendedReason(OutMissing[n])} :
                /\ dict_get(r, "source") = JStr(SOURCE_DOCS)
                /\ dict_get(r, "reason") = JStr("not_found") <=> ~HasFileMatch(k)
                /\ dict_get(r, "reason") = JStr("quality")
                       <=> (HasFileMatch(k) /\ frame.per_key[k].extracted = <<>>)

\* C7 witness: one missing record says quality and another says not_found.
C7_Witness ==
    /\ Assembled
    /\ \E n, m \in DOMAIN OutMissing :
           /\ dict_get(AppendedReason(OutMissing[n]), "reason") = JStr("quality")
           /\ dict_get(AppendedReason(OutMissing[m]), "reason") = JStr("not_found")

\* C8: at every step of atomic_write_json, and after a crash at any of them,
\* the file at the output path is what it was before the invocation (absent
\* included) or the complete serialized output object.
C8_AtomicWrite ==
    \/ OutputFile = hist.before
    \/ Assembled /\ OutputFile = [exists |-> TRUE, content |-> json_text(frame.output_obj)]

\* C8 witness: the process was killed while the temporary file held a part
\* of the document, and the output path still holds the earlier artifact.
C8_Witness ==
    /\ pc = "crashed"
    /\ tmp_path(output_path) \in DOMAIN fs.files
    /\ Len(fs.files[tmp_path(output_path)]) \in 1..(Len(json_chunks(frame.output_obj)) - 1)
    /\ hist.before.exists
    /\ OutputFile = hist.before
    /\ OutputFile.content # json_text(frame.output_obj)

\* C9: with the input file or the docs checkout absent, or a catalog that is
\* not an object with the two lists, the run goes no further than loading:
\* it ends with a diagnostic on stderr and exit status 1 or 2, and the output
\* file stays as it was.
C9_FatalInputs ==
    (~fs.input.exists \/ ~fs.docs.exists \/ ~WellShaped) =>
        /\ pc \in {"start", "load", "exit"}
        /\ OutputFile = hist.before
        /\ pc = "exit" => (frame.exit_code \in {1, 2} /\ frame.stderr # <<>>)

\* C9 witness: the run over a catalog whose missingConfigurations is not a
\* list has ended with status 2 and left the earlier artifact in place.
C9_Witness ==
    /\ pc = "exit"
    /\ fs.input.exists /\ fs.docs.exists /\ ~WellShaped
    /\ fs.input.value.t = "dict"
    /\ frame.exit_code = 2
    /\ OutputFile.exists /\ OutputFile = hist.before

\* The corpus without the files that cannot be read.
ReadableTree ==
    [p \in {q \in DOMAIN fs.docs.tree : fs.docs.tree[q].readable} |-> fs.docs.tree[p]]

ReadableOf(files) == SelectSeq(files, LAMBDA p : fs.docs.tree[p].readable)

C11_DebugSilent ==
    (pc = "exit" /\ hist.run >= 2 /\ argv.debug # hist.first.argv.debug) =>
        /\ [argv EXCEPT !.debug = hist.first.argv.debug] = hist.first.argv
        /\ frame.exit_code = hist.first.exit_code
        /\ frame.output_obj = hist.first.output_obj
        /\ OutputFile = hist.first.output

\* C11 witness: the run with --debug wrote more stderr lines than the run
\* without it and the same output object, which documents a key.
C11_Witness ==
    /\ pc = "exit" /\ hist.run >= 2
    /\ argv.debug /\ ~hist.first.argv.debug
    /\ Len(frame.stderr) > Len(hist.first.stderr)
    /\ Assembled /\ frame.output_obj = hist.first.output_obj
    /\ \E n \in DOMAIN OutDocumented :
           dict_get(OutDocumented[n], "key") = JStr("DD_A")

Alnum == CharsOf(UpperLetters) \cup CharsOf(LowerLetters) \cup CharsOf(Digits)

\* The number of words of s: the maximal runs of letters and digits.
WordCount(s) ==
    Cardinality({i \in 1..Len(s) : Ch(s, i) \in Alnum /\ (i = 1 \/ Ch(s, i - 1) \notin Alnum)})

\* s starts with an enabling or disabling verb, has none of , ; : and at
\* most nine words.
ShortToggle(s) ==
    /\ \E verb \in {"enable", "enables", "disable", "disables"} :
           /\ HasAt(lower(s), verb, 1)
           /\ WordEndsBefore(s, Len(verb) + 1)
    /\ \A i \in 1..Len(s) : Ch(s, i) \notin {",", ";", ":"}
    /\ WordCount(s) <= 9

\* The results main made for the documented records of the output:
\* [key, n, result], result being the n-th of the key.
MadeResults ==
    {[key |-> dict_get(OutDocumented[i], "key").s, n |-> n,
      result |-> dict_get(OutDocumented[i], "results").items[n]] :
        <<i, n>> \in {<<i, n>> \in (DOMAIN OutDocumented) \X (1..3) :
                         /\ dict_get(OutDocumented[i], "key").s \in DOMAIN frame.per_key
                         /\ n <= Len(dict_get(OutDocumented[i], "results").items)}}

\* C16: no result in the output of step 2 is a short toggle description,
\* while a toggle sentence with a comma passes the quality bar.
C16_ToggleRejected ==
    Assembled =>
        /\ \A r \in MadeResults : ~ShortToggle(dict_get(r.result, "description").s)
        /\ passes_quality_bar("Enables the tracer, which also affects the agent.")

\* C17: every result written into a documented record carries the file
\* path, the 1-based line number and the extractor kind of the candidate it
\* came from.
C17_Provenance ==
    Assembled =>
        \A r \in MadeResults :
            \E ex \in {frame.per_key[r.key].ranked[r.n]} :
                /\ dict_get(r.result, "sourceFile")
                       = JStr(ex.relpath \o ":" \o str_int(ex.line_number))
                /\ ex.line_number >= 1
                /\ \E name \in DOMAIN r.result.val : r.result.val[name] = JStr(ex.extractor)

\* The path ends in one of DOC_EXTENSIONS, in any case.
AllowedExtension(p) ==
    \E e \in DOC_EXTENSIONS : Len(p) > Len(e) /\ HasAt(lower(p), e, Len(p) - Len(e) + 1)

UnderGit(p) == Contains("/" \o p, "/.git/")

HasPass2Keyword(p) ==
    \E n \in DOMAIN PASS2_PATH_KEYWORDS : Contains(lower(p), PASS2_PATH_KEYWORDS[n])

\* A shortcode named <name>.<xx>.md or <name>.<xx>.mdx with xx two letters
\* other than en.
ForeignShortcode(p) ==
    /\ HasAt(p, "layouts/shortcodes/", 1)
    /\ \E parts \in {split(lower(p), ".")} :
           /\ Len(parts) >= 3
           /\ parts[Len(parts)] \in {"md", "mdx"}
           /\ Len(parts[Len(parts) - 1]) = 2
           /\ \A i \in 1..2 : Ch(parts[Len(parts) - 1], i) \in CharsOf(LowerLetters)
           /\ parts[Len(parts) - 1] # "en"
           /\ ~Contains(parts[Len(parts) - 1], "/")

UnderPass2Root(p) ==
    \E root \in {"content/en", "layouts/shortcodes", "layouts/partials", "data"} :
        HasAt(p, root \o "/", 1)

\* C18 as stated: the pass-2 file set is the set of the files of the whole
\* tree with an allowed extension, not under .git, whose path holds a pass-2
\* keyword.
C18_Pass2WholeTree ==
    pc = "scan1" =>
        Range(frame.pass2_files) =
            {p \in DOMAIN fs.docs.tree : AllowedExtension(p) /\ ~UnderGit(p) /\ HasPass2Keyword(p)}

\* C18 amended: the pass-2 file set is the set of the files under
\* content/en, layouts/shortcodes, layouts/partials and data with an allowed
\* extension, not under .git, not a shortcode of a language other than
\* English, whose path holds a pass-2 keyword.
C18_Pass2Corpus ==
    pc = "scan1" =>
        Range(frame.pass2_files) =
            {p \in DOMAIN fs.docs.tree :
                /\ UnderPass2Root(p) /\ AllowedExtension(p) /\ ~UnderGit(p)
                /\ ~ForeignShortcode(p) /\ HasPass2Keyword(p)}

\* C18 witness: of a checkout with the English and the French tracing page
\* and a French shortcode, pass 2 has the English page alone.
C18_Witness ==
    /\ pc = "scan1"
    /\ DOMAIN fs.docs.tree = {"content/en/tracing/go.md", "content/fr/tracing/go.md",
                              "layouts/shortcodes/apm.fr.md"}
    /\ frame.pass2_files = <<"content/en/tracing/go.md">>

\* The candidates of the first n FileMatches of a processed key.
CandidatesOfFirst(k, n) ==
    extract_all(k, frame.key_to_terms[k], Take(frame.per_key[k].file_matches, n), fs.docs.tree,
                [extracted |-> <<>>, log |-> <<>>], 1000).extracted

ResultCap == IF argv.max_results_per_key < 1 THEN 1 ELSE argv.max_results_per_key

\* The number of FileMatches of a processed key the extraction loop gets
\* to: up to the first at which six candidates for each result allowed are
\* there.
ExtractedFileMatches(k) ==
    Bind({n \in DOMAIN frame.per_key[k].file_matches :
             Len(CandidatesOfFirst(k, n)) >= ResultCap * 6}, LAMBDA enough :
        IF enough = {} THEN Len(frame.per_key[k].file_matches) ELSE MinOf(enough))

\* C20 as stated: the results of a key are the first max_results of the
\* ranked candidates of all its FileMatches.
C20_AllFileMatches ==
    pc = "mkdir" =>
        \A k \in DOMAIN frame.per_key :
            frame.per_key[k].ranked =
                Take(rank_extracted(k, CandidatesOfFirst(k, Len(frame.per_key[k].file_matches))),
                     ResultCap)

\* C20 amended: the results of a key are the first max_results of the
\* ranked candidates of its FileMatches up to, and with, the first one at
\* which 6 * max_results candidates are there; the FileMatches after it are
\* not extracted.
C20_SoftBound ==
    pc = "mkdir" =>
        \A k \in DOMAIN frame.per_key :
            \E n \in {ExtractedFileMatches(k)} :
                /\ frame.per_key[k].extracted = CandidatesOfFirst(k, n)
                /\ frame.per_key[k].ranked
                       = Take(rank_extracted(k, CandidatesOfFirst(k, n)), ResultCap)

\* C20 witness: DD_A has two FileMatches; the six bullets of the first fill
\* the bound for one result, and the definition list of the second is not
\* extracted.
C20_Witness ==
    /\ pc = "mkdir"
    /\ argv.max_results_per_key = 1
    /\ "DD_A" \in DOMAIN frame.per_key
    /\ Len(frame.per_key["DD_A"].file_matches) = 2
    /\ ExtractedFileMatches("DD_A") = 1
    /\ Len(frame.per_key["DD_A"].extracted) = 6
    /\ frame.per_key["DD_A"].ranked[1].extractor = "md_inline_bullet"
    /\ \E c \in Range(CandidatesOfFirst("DD_A", 2)) : c.extractor = "md_definition_list"

(***************************************************************************)
(* SpecScan: scan_for_file_matches applied to one file of arbitrary text   *)
(***************************************************************************)

\* Bound: the longest text drawn over ScanAlphabet.
MaxContentLen == 5

ScanAlphabet == {"K", "_", "-", " "}

RECURSIVE TextsUpTo(_, _)
TextsUpTo(alphabet, n) ==
    IF n = 0 THEN {""}
    ELSE LET shorter == TextsUpTo(alphabet, n - 1)
         IN  shorter \cup {t \o c : t \in shorter, c \in alphabet}

\* Texts that mention keys of the Datadog catalog.
ScanSampleTexts ==
    {"export DD_API_KEY_SECRET_ARN=arn:aws", "Set DD_API_KEY.", "DD_API_KEY_SECRET_ARN",
     "x-DD_API_KEY, DD-API-KEY", "DD_API_KEY_SECRET_ARN or DD_API_KEY", "DD_API_KEYS"}

ScanFile == "content/en/tracing/go.md"

\* (keys, alias map) pairs of the scan.
ScanCatalogs ==
    {[keys |-> <<"K">>, alias_map |-> <<>>],
     [keys |-> <<"K", "K_K">>, alias_map |-> <<>>],
     [keys |-> <<"K_K">>, alias_map |-> [k \in {"K_K"} |-> <<"KK", "K">>]]}

ScanSampleCatalogs ==
    {[keys |-> <<"DD_API_KEY">>, alias_map |-> <<>>],
     [keys |-> <<"DD_API_KEY", "DD_API_KEY_SECRET_ARN">>, alias_map |-> <<>>],
     [keys |-> <<"DD_API_KEY">>, alias_map |-> [k \in {"DD_API_KEY"} |-> <<"DATADOG_API_KEY">>]]}

ScanCall(cat, text) ==
    LET idx == build_search_terms(cat.keys, cat.alias_map)
    IN  [files |-> <<ScanFile>>,
         docs_repo |-> [p \in {ScanFile} |-> [content |-> text, readable |-> TRUE]],
         lang |-> "golang",
         keys |-> sorted_set(Range(cat.keys)),
         key_to_terms |-> idx.key_to_terms,
         alias_term_to_key |-> idx.alias_term_to_key,
         pass_id |-> 1,
         max_files_per_key |-> 30]

\* Three files of one pass: a release-notes page, a page with the language
\* in its name and a page without it; each holds one of ScanCorpusTexts.
ScanCorpusFiles ==
    <<"content/en/tracing/a_release_notes.md", "content/en/tracing/go.md",
      "content/en/tracing/setup.md">>

ScanCorpusTexts == {"", "K", "KK K-K K"}

\* The scan of the three files with at most max_files_per_key FileMatches
\* kept for a key.
ScanCorpusCall(cat, texts, max_files_per_key) ==
    [ScanCall(cat, "") EXCEPT
        !.files = ScanCorpusFiles,
        !.docs_repo = [p \in Range(ScanCorpusFiles) |->
                          [content |-> texts[CHOOSE n \in 1..3 : ScanCorpusFiles[n] = p],
                           readable |-> TRUE]],
        !.max_files_per_key = max_files_per_key]

InitScan ==
    /\ pc = "scan"
    /\ call \in {ScanCall(cat, text) : cat \in ScanCatalogs, text \in TextsUpTo(ScanAlphabet, MaxContentLen)}
               \cup {ScanCall(cat, text) : cat \in ScanSampleCatalogs, text \in ScanSampleTexts}
               \cup {ScanCorpusCall(cat, texts, m) :
                        cat \in ScanCatalogs, texts \in [1..3 -> ScanCorpusTexts], m \in 1..2}
    /\ ret = None
    /\ fs = None /\ argv = None /\ frame = None /\ hist = None

DoScan ==
    /\ pc = "scan"
    /\ ret' = scan_for_file_matches(call.files, call.docs_repo, call.lang, call.keys, call.key_to_terms,
                                    call.alias_term_to_key, call.pass_id, call.max_files_per_key)
    /\ pc' = "scanned"
    /\ UNCHANGED <<call, fs, argv, frame, hist>>

NextScan == DoScan

SpecScan == InitScan /\ [][NextScan]_vars

\* t occurs in text at 0-based offset pos with no character of [A-Za-z0-9_-]
\* directly before or after it.
TokenAt(text, t, pos) ==
    /\ HasAt(text, t, pos + 1)
    /\ (pos = 0 \/ Ch(text, pos) \notin TOKEN_BOUNDARY_CLASS)
    /\ (pos + Len(t) = Len(text) \/ Ch(text, pos + Len(t) + 1) \notin TOKEN_BOUNDARY_CLASS)

\* Every mention of DD_API_KEY in the text is the start of DD_API_KEY_SECRET_ARN.
OnlySecretArn(text) ==
    /\ Contains(text, "DD_API_KEY")
    /\ \A i \in 1..Len(text) : HasAt(text, "DD_API_KEY", i) => HasAt(text, "DD_API_KEY_SECRET_ARN", i)

\* C1: every FileMatch the scan records for a key sits at an offset where one
\* of the key's search terms occurs with both neighbours outside
\* [A-Za-z0-9_-] (or at the start/end of the file); and a file that mentions
\* DD_API_KEY only inside DD_API_KEY_SECRET_ARN gives DD_API_KEY no FileMatch.
C1_TokenBoundary ==
    pc = "scanned" =>
        /\ \A k \in DOMAIN ret : \A i \in DOMAIN ret[k] :
               \E n \in DOMAIN call.key_to_terms[k] :
                   TokenAt(call.docs_repo[ret[k][i].relpath].content, call.key_to_terms[k][n],
                           ret[k][i].match_pos)
        /\ ("DD_API_KEY" \in Range(call.keys) /\ OnlySecretArn(call.docs_repo[ScanFile].content))
               => "DD_API_KEY" \notin DOMAIN ret

\* C1 witness: the scan has run over a file that mentions DD_API_KEY only
\* inside DD_API_KEY_SECRET_ARN, for a catalog holding DD_API_KEY.
C1_Witness ==
    /\ pc = "scanned"
    /\ "DD_API_KEY" \in Range(call.keys)
    /\ OnlySecretArn(call.docs_repo[ScanFile].content)
    /\ "DD_API_KEY" \notin DOMAIN ret

\* Every FileMatch the scan of call records for a key, before the lists are
\* cut: key => set of FileMatches.
AllRecorded ==
    Bind(scan_for_file_matches(call.files, call.docs_repo, call.lang, call.keys,
                               call.key_to_terms, call.alias_term_to_key, call.pass_id,
                               Len(call.files) * 100), LAMBDA out :
        [k \in DOMAIN out |-> Range(out[k])])

\* C12: after the scan of a pass each key's list has at most
\* max_files_per_key FileMatches, in ascending order of (pass id, 0 with a
\* language hint else 1, path score, relative path, match offset), and they
\* are the smallest under that order of all FileMatches recorded for the key.
C12_BoundedTruncation ==
    pc = "scanned" =>
        \E all \in {AllRecorded} :
            /\ DOMAIN ret = DOMAIN all
            /\ \A k \in DOMAIN ret :
                  /\ Len(ret[k]) <= call.max_files_per_key
                  /\ Len(ret[k]) = Cardinality(all[k]) \/ Len(ret[k]) = call.max_files_per_key
                  /\ Range(ret[k]) \subseteq all[k]
                  /\ \A i, j \in DOMAIN ret[k] :
                         i < j => KeyLess(sort_key(ret[k][i]), sort_key(ret[k][j]))
                  /\ \A fm \in all[k] \ Range(ret[k]) : \A i \in DOMAIN ret[k] :
                         KeyLess(sort_key(ret[k][i]), sort_key(fm))

\* C12 witness: a key with four FileMatches in three files keeps two, both
\* of the file with the language hint, and loses the one of the file whose
\* path comes first.
C12_Witness ==
    /\ pc = "scanned"
    /\ call.max_files_per_key = 2
    /\ "K_K" \in DOMAIN ret
    /\ Cardinality(AllRecorded["K_K"]) >= 4
    /\ Len(ret["K_K"]) = 2
    /\ \A i \in 1..2 : ret["K_K"][i].relpath = ScanCorpusFiles[2]
    /\ \E fm \in AllRecorded["K_K"] : fm.relpath = ScanCorpusFiles[1]

\* The FileMatches the scan of call records for key k in file f, before the
\* lists are cut, as a list.
RecordedIn(k, f) ==
    Bind(scan_for_file_matches(call.files, call.docs_repo, call.lang, call.keys,
                               call.key_to_terms, call.alias_term_to_key, call.pass_id,
                               Len(call.files) * 100), LAMBDA out :
        IF k \in DOMAIN out THEN SelectSeq(out[k], LAMBDA fm : fm.relpath = f) ELSE <<>>)

\* The 0-based offsets at which t occurs in text with token boundaries.
TokenOffsets(text, t) == {pos \in 0..Len(text) : TokenAt(text, t, pos)}

\* C22: from one file a key gets at most one FileMatch for each of its terms
\* (names over [A-Za-z0-9_-]): no two of its FileMatches of the file have the
\* same offset, each sits at the smallest offset at which one of the terms
\* occurs with token boundaries, and they are no more than the terms.
C22_FirstOccurrence ==
    pc = "scanned" =>
        \A k \in Range(call.keys) : \A f \in Range(call.files) :
            \E fms \in {RecordedIn(k, f)}, text \in {call.docs_repo[f].content} :
                /\ Len(fms) <= Cardinality(Range(call.key_to_terms[k]))
                /\ \A i, j \in DOMAIN fms : i # j => fms[i].match_pos # fms[j].match_pos
                /\ \A i \in DOMAIN fms :
                       \E t \in Range(call.key_to_terms[k]) :
                           /\ TokenOffsets(text, t) # {}
                           /\ fms[i].match_pos = MinOf(TokenOffsets(text, t))
                /\ k \in DOMAIN ret =>
                       \A i \in DOMAIN ret[k] : ret[k][i].relpath = f => ret[k][i] \in Range(fms)

\* C22 witness: the file names K three times, and K has the one FileMatch
\* at offset 0.
C22_Witness ==
    /\ pc = "scanned"
    /\ call.files = <<ScanFile>>
    /\ TokenOffsets(call.docs_repo[ScanFile].content, "K") = {0, 2, 4}
    /\ "K" \in DOMAIN ret
    /\ Len(ret["K"]) = 1 /\ ret["K"][1].match_pos = 0

(***************************************************************************)
(* SpecRank: rank_extracted applied to a list of candidates of one key     *)
(***************************************************************************)

\* Bound: the longest candidate list drawn.
MaxCandidates == 2

RankKey == "DD_A"

\* Candidate texts as normalize_text leaves them; the first three differ in
\* case and in the kind of white space only.
RankTexts == {"Set DD_B", "set dd_b", "Set\nDD_B", "Use it"}

\* A file of the curated tracing subtree found in pass 1, and a release-notes
\* file found in pass 2.
RankFileMatches ==
    {FileMatch(p, pass_id, 0, path_has_any_token(lower(p), lang_hints("golang")),
               compute_path_keyword_score(p)) :
        <<p, pass_id>> \in {<<"content/en/tracing/go.md", 1>>, <<"content/en/agent/release_notes.md", 2>>}}

RankLine(extractor) ==
    CASE extractor = "md_definition_list" -> 9
      [] extractor = "yaml_description" -> 3
      [] OTHER -> 1

RankCandidates ==
    {Extracted(t, RankLine(e), e, fm) :
        t \in RankTexts, e \in {"md_definition_list", "yaml_description", "prose_paragraph"},
        fm \in RankFileMatches}

RECURSIVE ListsUpTo(_, _)
ListsUpTo(S, n) ==
    IF n = 0 THEN {<<>>}
    ELSE LET shorter == ListsUpTo(S, n - 1)
         IN  shorter \cup {Append(q, x) : q \in shorter, x \in S}

\* Lists of three candidates of the tracing file, with two texts that differ
\* in case only.
RankTriples ==
    {q \in ListsUpTo({c \in RankCandidates :
                         /\ c.description \in {"Set DD_B", "set dd_b", "Use it"}
                         /\ c.extractor # "yaml_description"
                         /\ c.filematch.pass_id = 1}, 3) : Len(q) = 3}

\* --max-results-per-key as given on the command line.
RankMaxResults == {0, 2}

\* Candidates of every extractor, from files with and without the language
\* hint and with three path scores, found in either pass, with texts of two
\* lengths that name another key or none, on two lines.
RankVariants ==
    {Extracted(t, l, e,
               FileMatch(p, pass_id, 0, path_has_any_token(lower(p), lang_hints("golang")),
                         compute_path_keyword_score(p))) :
        t \in {"Use it", "Set it", "Set DD_B", "Use it now"},
        l \in {1, 2},
        e \in {"md_definition_list", "md_table", "md_inline_bullet", "yaml_description_block",
               "yaml_description", "json_description", "prose_paragraph"},
        p \in {"content/en/tracing/go.md", "content/en/tracing/golang.md",
               "content/en/tracing/go/release_notes.md", "content/en/agent/release_notes.md",
               "content/en/tracing/setup.md"},
        pass_id \in {1, 2}}

\* A table cell and a YAML scalar of line 1 of the Go page.
RankBases ==
    {c \in RankVariants :
        /\ c.extractor \in {"md_table", "yaml_description"}
        /\ c.relpath = "content/en/tracing/go.md" /\ c.filematch.pass_id = 1
        /\ c.description = "Set it" /\ c.line_number = 1}

\* One of them and any candidate, in both orders.
RankPairs == UNION {{<<a, b>>, <<b, a>>} : <<a, b>> \in RankBases \X RankVariants}

InitRank ==
    /\ pc = "rank"
    /\ call \in {[key |-> RankKey, extracted |-> q, max_results_per_key |-> m,
                  entries |-> <<MissingEntry(RankKey, "A")>>] :
                    <<q, m>> \in ((ListsUpTo(RankCandidates, MaxCandidates) \cup RankTriples)
                                     \X RankMaxResults)
                                 \cup (RankPairs \X {2})}
    /\ ret = None
    /\ fs = None /\ argv = None /\ frame = None /\ hist = None

DoRank ==
    /\ pc = "rank"
    /\ ret' = rank_extracted(call.key, call.extracted)
    /\ pc' = "ranked"
    /\ UNCHANGED <<call, fs, argv, frame, hist>>

\* main, lines 951 and 965-997, for one key: the ranked list cut to
\* max_results and the documented records made of it.
DoRecord ==
    /\ pc = "rank"
    /\ \E ranked \in {ranked_results(call.key, call.extracted,
                                     at_least_one(call.max_results_per_key))} :
           ret' = [ranked |-> ranked,
                   documented |-> IF ranked # <<>>
                                  THEN documented_records(call.key, call.entries,
                                                          results_of(ranked))
                                  ELSE <<>>]
    /\ pc' = "recorded"
    /\ UNCHANGED <<call, fs, argv, frame, hist>>

NextRank == DoRank \/ DoRecord

SpecRank == InitRank /\ [][NextRank]_vars

\* A text case-folded, cut into its words at white space, the words joined
\* by single spaces.
RECURSIVE FoldWords(_)
FoldWords(s) ==
    LET t == lstrip(s, Whitespace)
        n == RunLen(t, CharsOf(Ascii) \ Whitespace, 1)
        rest == IF n = Len(t) THEN "" ELSE FoldWords(SubSeq(t, n + 1, Len(t)))
    IN  IF t = "" THEN ""
        ELSE lower(SubSeq(t, 1, n)) \o (IF rest = "" THEN "" ELSE " " \o rest)

SameText(a, b) == FoldWords(a.description) = FoldWords(b.description)

\* C4: no two results of rank_extracted have equal case-folded,
\* whitespace-collapsed text; of the candidates sharing one such text exactly
\* one is kept, and no candidate with that text sorts before it under the
\* ranking key.
C4_Deduplication ==
    pc = "ranked" =>
        /\ \A i, j \in DOMAIN ret : i < j => ~SameText(ret[i], ret[j])
        /\ \A n \in DOMAIN call.extracted :
              /\ Cardinality({i \in DOMAIN ret : SameText(ret[i], call.extracted[n])}) = 1
              /\ \A i \in DOMAIN ret : SameText(ret[i], call.extracted[n]) =>
                    /\ ret[i] \in Range(call.extracted)
                    /\ ~KeyLess(score(call.key, call.extracted[n]), score(call.key, ret[i]))

\* C4 witness: two candidates from two files with the same normalized text
\* went in, one came out.
C4_Witness ==
    /\ pc = "ranked"
    /\ Len(call.extracted) = 2
    /\ call.extracted[1].relpath # call.extracted[2].relpath
    /\ call.extracted[1].description # call.extracted[2].description
    /\ SameText(call.extracted[1], call.extracted[2])
    /\ Len(ret) = 1

\* The texts of a list of candidates, case-folded and whitespace-collapsed.
FoldedTexts(q) == {FoldWords(q[n].description) : n \in DOMAIN q}

\* C13: a documented record made for a key has at least one result and at
\* most max(1, max_results_per_key); it has that many results or one for
\* every distinct text of the candidates, so the cut comes after the
\* deduplication; and no candidate whose text is left out sorts before a
\* candidate that was kept, so the cut comes after the sort.
C13_ResultCap ==
    pc = "recorded" =>
        \E cap \in {IF call.max_results_per_key < 1 THEN 1 ELSE call.max_results_per_key} :
            /\ \A n \in DOMAIN ret.documented :
                   \E results \in {dict_get(ret.documented[n], "results").items} :
                       /\ Len(results) \in 1..cap
                       /\ Len(results) = cap
                              \/ Len(results) = Cardinality(FoldedTexts(call.extracted))
                       /\ \A i \in DOMAIN results :
                              dict_get(results[i], "description") = JStr(ret.ranked[i].description)
                       /\ Len(results) = Len(ret.ranked)
            /\ \A n \in DOMAIN call.extracted :
                   FoldWords(call.extracted[n].description) \notin FoldedTexts(ret.ranked)
                       => \A i \in DOMAIN ret.ranked :
                              ~KeyLess(score(call.key, call.extracted[n]),
                                       score(call.key, ret.ranked[i]))

\* C13 witness: of three candidates, the first two with the same text, a
\* documented record with two results was made under a cap of two.
C13_Witness ==
    /\ pc = "recorded"
    /\ call.max_results_per_key = 2
    /\ Len(call.extracted) = 3
    /\ SameText(call.extracted[1], call.extracted[2])
    /\ ~SameText(call.extracted[1], call.extracted[3])
    /\ Len(ret.documented) = 1
    /\ Len(dict_get(ret.documented[1], "results").items) = 2

\* The other DD_ and OTEL_ names in a text: the runs of capitals, digits and
\* underscores after the prefix, with no word character on either side.
OtherKeyTokens(text, key) ==
    {SubSeq(text, i, j) : <<i, j>> \in
        {<<i, j>> \in (1..Len(text)) \X (1..Len(text)) :
            /\ \E prefix \in {"DD_", "OTEL_"} : HasAt(text, prefix, i) /\ j >= i + Len(prefix)
            /\ \A n \in i..j : Ch(text, n) \in CharsOf(UpperLetters) \cup CharsOf(Digits) \cup {"_"}
            /\ i = 1 \/ Ch(text, i - 1) \notin WordChars
            /\ j = Len(text) \/ Ch(text, j + 1) \notin WordChars}} \ {key}

\* The components of the ranking tuple of a candidate, in their order.
RankingTuple(key, ex) ==
    << <<CASE ex.extractor = "md_definition_list" -> 0
           [] ex.extractor = "md_table" -> 1
           [] ex.extractor = "md_inline_bullet" -> 2
           [] ex.extractor = "yaml_description_block" -> 3
           [] ex.extractor = "yaml_description" -> 4
           [] ex.extractor = "json_description" -> 5
           [] ex.extractor = "prose_paragraph" -> 9>>,
       <<ex.filematch.pass_id>>,
       <<IF ex.filematch.has_lang_hint THEN 0 ELSE 1>>,
       <<Cardinality(OtherKeyTokens(ex.description, key))>>,
       <<Len(ex.description)>>,
       <<ex.filematch.path_keyword_score>>,
       StrKey(ex.relpath),
       <<ex.line_number>> >>

\* a comes before b: at the first component on which they differ, a is less.
RankedBefore(key, a, b) ==
    \E c \in 1..8 :
        /\ \A d \in 1..(c - 1) : RankingTuple(key, a)[d] = RankingTuple(key, b)[d]
        /\ SeqLess(RankingTuple(key, a)[c], RankingTuple(key, b)[c])

\* C21: the result of rank_extracted is in ascending order of the tuple
\* (extractor rank, pass id, language hint, other keys named, text length,
\* path score, path, line), compared component by component; its first
\* candidate is the least of those that went in.
C21_RankingOrder ==
    pc = "ranked" =>
        /\ \A i, j \in DOMAIN ret : i < j => ~RankedBefore(call.key, ret[j], ret[i])
        /\ \A n \in DOMAIN call.extracted : ~RankedBefore(call.key, call.extracted[n], ret[1])

\* C21 witness: two candidates equal on everything before the line number
\* went in with the later line first, and came out with the earlier first.
C21_Witness ==
    /\ pc = "ranked"
    /\ Len(call.extracted) = 2 /\ Len(ret) = 2
    /\ \A d \in 1..7 : RankingTuple(call.key, ret[1])[d] = RankingTuple(call.key, ret[2])[d]
    /\ ret[1].line_number = 1 /\ ret[2].line_number = 2
    /\ call.extracted = <<ret[2], ret[1]>>

\* C5: in the result of rank_extracted every definition-list candidate comes
\* before every prose-fallback candidate, and when a definition-list
\* candidate went in the first result is a definition-list candidate,
\* whatever the pass, language hint, path score, path and line of the two.
C5_Precedence ==
    pc = "ranked" =>
        /\ \A i, j \in DOMAIN ret :
              (ret[i].extractor = "md_definition_list" /\ ret[j].extractor = "prose_paragraph") => i < j
        /\ (\E n \in DOMAIN call.extracted : call.extracted[n].extractor = "md_definition_list")
              => ret[1].extractor = "md_definition_list"

\* C5 witness: a definition-list candidate of the pass-2 release-notes file
\* is ranked before a prose candidate of the pass-1 tracing file.
C5_Witness ==
    /\ pc = "ranked"
    /\ Len(ret) = 2
    /\ ret[1].extractor = "md_definition_list" /\ ret[1].filematch.pass_id = 2
    /\ ~ret[1].filematch.has_lang_hint /\ ret[1].filematch.path_keyword_score = 50
    /\ ret[2].extractor = "prose_paragraph" /\ ret[2].filematch.pass_id = 1
    /\ ret[2].filematch.has_lang_hint /\ ret[2].filematch.path_keyword_score = -10
    /\ ret[2].line_number < ret[1].line_number

(***************************************************************************)
(* SpecTerms: build_search_terms applied to keys and an alias map          *)
(***************************************************************************)

\* Bound: the longest list of keys drawn (a key may come twice).
MaxKeys == 2

TermKeys == {"K", "K_K", "A_B"}

\* Alias lists as key_aliases_from_supported_configurations and a caller of
\* build_search_terms can give them: one alias; an alias twice around
\* another, the first being the hyphenated K_K; an empty alias, the key K_K
\* itself, the key K and the alias OLD again.
TermAliasLists == {<<"OLD">>, <<"K-K", "NEW", "K-K">>, <<"", "K_K", "K", "OLD">>}

TermAliasMaps == UNION {[D -> TermAliasLists] : D \in SUBSET TermKeys}

InitTerms ==
    /\ pc = "terms"
    /\ call \in {[keys |-> ks, alias_map |-> am] :
                    ks \in ListsUpTo(TermKeys, MaxKeys), am \in TermAliasMaps}
    /\ ret = None
    /\ fs = None /\ argv = None /\ frame = None /\ hist = None

DoTerms ==
    /\ pc = "terms"
    /\ ret' = build_search_terms(call.keys, call.alias_map)
    /\ pc' = "indexed"
    /\ UNCHANGED <<call, fs, argv, frame, hist>>

NextTerms == DoTerms

SpecTerms == InitTerms /\ [][NextTerms]_vars

\* k with a hyphen for every underscore.
RECURSIVE Hyphenated(_)
Hyphenated(k) ==
    IF k = "" THEN ""
    ELSE (IF Ch(k, 1) = "_" THEN "-" ELSE Ch(k, 1)) \o Hyphenated(SubSeq(k, 2, Len(k)))

\* The documented terms of a key, in their order, duplicates and empty
\* aliases included: the key, its hyphenated variant, its aliases.
ListedTerms(k) ==
    <<k>>
    \o (IF \E i \in 1..Len(k) : Ch(k, i) = "_" THEN <<Hyphenated(k)>> ELSE <<>>)
    \o (IF k \in DOMAIN call.alias_map THEN call.alias_map[k] ELSE <<>>)

FirstAt(q, x) == MinOf({n \in DOMAIN q : q[n] = x})

\* C14: build_search_terms gives every key a term list without duplicates
\* that starts with the key and holds the key's hyphenated variant and its
\* non-empty aliases in the order of their first occurrence; and the reverse
\* map has exactly the terms after the first of the lists, each mapped to a
\* key that has it after its first term.
C14_SearchTerms ==
    pc = "indexed" =>
        /\ DOMAIN ret.key_to_terms = Range(call.keys)
        /\ \A k \in Range(call.keys) :
               \E terms \in {ret.key_to_terms[k]}, listed \in {ListedTerms(k)} :
                   /\ terms[1] = k
                   /\ \A i, j \in DOMAIN terms : i < j => terms[i] # terms[j]
                   /\ Range(terms) = Range(listed) \ {""}
                   /\ \A i, j \in DOMAIN terms :
                          i < j => FirstAt(listed, terms[i]) < FirstAt(listed, terms[j])
        /\ DOMAIN ret.alias_term_to_key =
               UNION {Range(Tail(ret.key_to_terms[k])) : k \in Range(call.keys)}
        /\ \A t \in DOMAIN ret.alias_term_to_key :
               /\ ret.alias_term_to_key[t] \in Range(call.keys)
               /\ t \in Range(Tail(ret.key_to_terms[ret.alias_term_to_key[t]]))

\* C14 witness: K_K, with an alias equal to its hyphenated variant given
\* twice, gets the terms K_K, K-K, NEW; and A_B, with an empty alias and
\* the aliases K_K, K and OLD, gets A_B, A-B, K_K, K, OLD.
C14_Witness ==
    /\ pc = "indexed"
    /\ call.keys = <<"K_K", "A_B">>
    /\ ret.key_to_terms["K_K"] = <<"K_K", "K-K", "NEW">>
    /\ ret.key_to_terms["A_B"] = <<"A_B", "A-B", "K_K", "K", "OLD">>
    /\ DOMAIN ret.alias_term_to_key = {"K-K", "NEW", "A-B", "K_K", "K", "OLD"}

\* C15: when build_search_terms returns, no term belongs to two keys, so
\* that no mapping of the reverse map was replaced by a later key's.
C15_TermUniqueness ==
    pc = "indexed" =>
        \A k1, k2 \in DOMAIN ret.key_to_terms :
            k1 # k2 => Range(ret.key_to_terms[k1]) \cap Range(ret.key_to_terms[k2]) = {}

(***************************************************************************)
(* step_4c_merge_llm_needed_into_step_2.py: the merge of the descriptions  *)
(* an LLM filled in into the output of step 2                              *)
(***************************************************************************)

SOURCE_LLM == "llm_generated"

\* as_key_impl(entry): the (key, implementation) pair, or None.
as_key_impl(entry) ==
    IF entry.t # "dict" THEN None
    ELSE IF ~is_nonempty_str(dict_get(entry, "key")) THEN None
    ELSE IF ~is_nonempty_str(dict_get(entry, "implementation")) THEN None
    ELSE <<dict_get(entry, "key").s, dict_get(entry, "implementation").s>>

\* normalize_description(raw): the stripped text, or None (JNull).
normalize_description(raw) ==
    IF raw.t # "str" THEN JNull
    ELSE Bind(strip(raw.s), LAMBDA s :
             IF s = "" THEN JNull
             ELSE IF lower(s) = "null" THEN JNull
             ELSE JStr(s))

\* \b of re at position p (1-based, between the characters p - 1 and p).
word_boundary(s, p) ==
    (p > 1 /\ Ch(s, p - 1) \in WordChars) # (p <= Len(s) /\ Ch(s, p) \in WordChars)

\* A match of \b(alternatives)\b that starts at i: the positions after it.
word_ends(s, i, alternatives) ==
    {i + Len(w) : w \in {w \in alternatives :
                            /\ HasAt(s, w, i)
                            /\ word_boundary(s, i)
                            /\ word_boundary(s, i + Len(w))}}

\* re.search(r"\b(see|refer to|read)\b.*\b(docs?|documentation|here|below|above)\b")
refers_elsewhere(lowered) ==
    \E i \in 1..Len(lowered) :
        \E e \in word_ends(lowered, i, {"see", "refer to", "read"}) :
            \E j \in e..Len(lowered) :
                /\ word_ends(lowered, j, {"doc", "docs", "documentation", "here", "below", "above"})
                       # {}
                /\ ~Contains(SubSeq(lowered, e, j - 1), "\n")

\* len(re.findall(r"[A-Za-z0-9]+", s))
word_count(s) ==
    Cardinality({i \in 1..Len(s) :
                    /\ Ch(s, i) \in WordChars \ {"_"}
                    /\ (i = 1 \/ Ch(s, i - 1) \notin WordChars \ {"_"})})

\* re.match(r"^(enable|enables|...|turns off)\b", lowered)
toggle_prefix(lowered) ==
    \E w \in {"enable", "enables", "whether to enable", "controls whether to enable",
              "turn on", "turns on", "turn off", "turns off"} :
        HasAt(lowered, w, 1) /\ word_boundary(lowered, 1 + Len(w))

\* passes_quality_bar of step 4c.
merge_passes_quality_bar(description) ==
    Bind(strip(description), LAMBDA s :
        IF Len(s) < 20 THEN FALSE
        ELSE IF lower(s) \in {"tbd", "todo", "n/a", "na", "none"} THEN FALSE
        ELSE IF refers_elsewhere(lower(s)) THEN FALSE
        ELSE IF /\ toggle_prefix(lower(s))
                /\ word_count(s) <= 10
                /\ CharsOf(s) \cap {",", ";", ":"} = {}
                /\ ~(Cardinality({i \in 1..Len(s) : Ch(s, i) = "."}) >= 2)
        THEN FALSE
        ELSE TRUE)

\* has_reason(missing_reasons, source)
has_reason(missing_reasons, source) ==
    /\ missing_reasons.t = "list"
    /\ \E n \in DOMAIN missing_reasons.items :
           /\ missing_reasons.items[n].t = "dict"
           /\ dict_get(missing_reasons.items[n], "source") = JStr(source)

\* The results kept as they are.
remove_results_keep_all(results, source) ==
    IF results.t # "list" THEN <<>> ELSE results.items

\* remove_results_with_source(results, source)
remove_results_with_source(results, source) ==
    IF results.t # "list" THEN <<>>
    ELSE SelectSeq(results.items,
                   LAMBDA r : r.t = "dict" /\ dict_get(r, "source") # JStr(source))

\* The buckets of the LLM-needed file, in the order they are read.
llm_buckets == <<"documentedNoRegistryDoc", "documentedNoResults", "missingConfigurations">>

\* iter_llm_needed_entries(llm_needed_obj): the dict items of the buckets;
\* raised: it ended in the ValueError.
RECURSIVE bucket_entries(_, _)
bucket_entries(llm_needed, n) ==
    IF n > Len(llm_buckets) THEN [raised |-> FALSE, entries |-> <<>>]
    ELSE Bind(dict_get(llm_needed, llm_buckets[n]), LAMBDA arr :
             IF arr = JNull THEN bucket_entries(llm_needed, n + 1)
             ELSE IF arr.t # "list" THEN [raised |-> TRUE, entries |-> <<>>]
             ELSE Bind(bucket_entries(llm_needed, n + 1), LAMBDA rest :
                      [rest EXCEPT !.entries =
                          SelectSeq(arr.items, LAMBDA it : it.t = "dict") \o @]))

iter_llm_needed_entries(llm_needed_obj) ==
    IF dict_get(llm_needed_obj, "llmNeeded").t # "dict"
    THEN [raised |-> TRUE, entries |-> <<>>]
    ELSE bucket_entries(dict_get(llm_needed_obj, "llmNeeded"), 1)

\* The entries with a pair, and whether two of them have the same pair.
paired(entries) == SelectSeq(entries, LAMBDA e : as_key_impl(e) # None)

duplicate_pair(entries) ==
    \E i, j \in DOMAIN paired(entries) :
        i < j /\ as_key_impl(paired(entries)[i]) = as_key_impl(paired(entries)[j])

\* by_pair.get(pair) as the position of the entry in its list, 0 for None.
index_of_pair(entries, pair) ==
    IF \E n \in DOMAIN entries : as_key_impl(entries[n]) = pair
    THEN CHOOSE n \in DOMAIN entries : as_key_impl(entries[n]) = pair
    ELSE 0

llm_result(desc) ==
    JObj(("description" :> JStr(desc)) @@ ("shortDescription" :> JStr(""))
         @@ ("source" :> JStr(SOURCE_LLM)))

\* One turn of the loop of main over llm_override_by_pair. st.documented and
\* st.missing are the lists of step 2, whose entries the loop changes in
\* place; st.appended are the new documented entries.
apply_override(st, override) ==
    LET pair == as_key_impl(override)
        desc == normalize_description(dict_get(override, "description"))
        usable == desc.t = "str" /\ merge_passes_quality_bar(desc.s)
        d == index_of_pair(st.documented, pair)
        m == index_of_pair(st.missing, pair)
    IN  IF usable /\ d # 0 THEN
            [st EXCEPT !.documented[d] =
                JObj([name \in DOMAIN @.val \cup {"results"} |->
                        IF name = "results"
                        THEN JList(remove_results_with_source(dict_get(@, "results"), SOURCE_LLM)
                                   \o <<llm_result(desc.s)>>)
                        ELSE @.val[name]])]
        ELSE IF usable /\ m # 0 THEN
            Bind(dict_get(st.missing[m], "missingReasons"), LAMBDA prev_missing :
                [st EXCEPT
                    !.appended = Append(@,
                        JObj(("key" :> JStr(pair[1])) @@ ("implementation" :> JStr(pair[2]))
                             @@ ("results" :> JList(<<llm_result(desc.s)>>))
                             @@ (IF prev_missing.t = "list" /\ prev_missing.items # <<>>
                                 THEN "missingSources" :> prev_missing ELSE <<>>))),
                    !.promoted_pairs = @ \cup {pair}])
        ELSE IF usable \/ m = 0 THEN st
        ELSE Bind(IF dict_get(st.missing[m], "missingReasons").t = "list"
                  THEN dict_get(st.missing[m], "missingReasons") ELSE JList(<<>>),
                  LAMBDA missing_reasons :
                [st EXCEPT !.missing[m] =
                    JObj([name \in DOMAIN @.val \cup {"missingReasons"} |->
                            IF name = "missingReasons"
                            THEN IF has_reason(missing_reasons, SOURCE_LLM) THEN missing_reasons
                                 ELSE JList(Append(missing_reasons.items,
                                        JObj(("source" :> JStr(SOURCE_LLM))
                                             @@ ("reason" :> JStr(IF desc.t = "str" THEN "quality"
                                                                  ELSE "not_found")))))
                            ELSE @.val[name]])])

RECURSIVE apply_overrides(_, _)
apply_overrides(st, overrides) ==
    IF overrides = <<>> THEN st
    ELSE apply_overrides(apply_override(st, Head(overrides)), Tail(overrides))

\* sort(key=lambda c: (c.get("key", ""), c.get("implementation", "")))
sort_by_pair(records) ==
    list_sort(records, [n \in DOMAIN records |-> record_sort_key(records[n])])

\* The object main writes.
merge_output(step2, st) ==
    Bind(SelectSeq(st.missing, LAMBDA e : as_key_impl(e) = None
                                          \/ as_key_impl(e) \notin st.promoted_pairs),
         LAMBDA updated_missing :
        JObj((IF dict_get(step2, "lang").t = "str" THEN "lang" :> dict_get(step2, "lang")
              ELSE <<>>)
             @@ ("missingCount" :> JInt(Len(updated_missing)))
             @@ ("documentedCount" :> JInt(Len(st.documented) + Len(st.appended)))
             @@ ("documentedConfigurations"
                    :> JList(sort_by_pair(st.documented \o st.appended)))
             @@ ("missingConfigurations" :> JList(sort_by_pair(updated_missing)))))

\* main of step 4c on the contents of its two input files (None: no such
\* file): the exit status and the object written to the output path.
merge_main(step2, llm_needed_obj) ==
    LET documented == dict_get(step2, "documentedConfigurations")
        missing == dict_get(step2, "missingConfigurations")
        failed == [exit_code |-> 2, out |-> None]
    IN  IF step2 = None \/ llm_needed_obj = None THEN failed
        ELSE IF step2.t # "dict" THEN failed
        ELSE IF documented.t # "list" \/ missing.t # "list" THEN failed
        ELSE IF llm_needed_obj.t # "dict" THEN failed
        ELSE IF duplicate_pair(SelectSeq(documented.items, LAMBDA e : e.t = "dict")) THEN failed
        ELSE IF duplicate_pair(SelectSeq(missing.items, LAMBDA e : e.t = "dict")) THEN failed
        ELSE Bind(iter_llm_needed_entries(llm_needed_obj).entries, LAMBDA llm_entries :
                 IF iter_llm_needed_entries(llm_needed_obj).raised THEN failed
                 ELSE IF duplicate_pair(llm_entries) THEN failed
                 ELSE [exit_code |-> 0,
                       out |-> merge_output(step2,
                                 apply_overrides(
                                    [documented |-> SelectSeq(documented.items,
                                                              LAMBDA e : e.t = "dict"),
                                     missing |-> SelectSeq(missing.items,
                                                           LAMBDA e : e.t = "dict"),
                                     appended |-> <<>>,
                                     promoted_pairs |-> {}],
                                    paired(llm_entries)))])

(***************************************************************************)
(* SpecMerge: step 4c run, and run again, on the output of step 2          *)
(***************************************************************************)

\* Bound: the number of times the merge is run on its own output.
MaxMerges == 2

\* Bound: the most entries of the LLM-needed file.
MaxLlmEntries == 2

MergePairSeq == <<<<"DD_A", "A">>, <<"DD_B", "A">>>>

MergePairs == Range(MergePairSeq)

TextLlmUsable == "Sampling rate of the traces, 0 to 1."
TextLlmOld == "Rate at which the traces are sampled."
TextLlmToggle == "  Enables the tracer for this service. "
TextLlmSee == "See the documentation of the tracer."

\* What the LLM-needed file has as the description of an entry: null, the
\* word null, a short toggle sentence, a pointer to the docs, a usable text.
LlmDescriptions == {JNull, JStr(" NULL "), JStr(TextLlmToggle), JStr(TextLlmSee), JStr(TextLlmUsable)}

LlmEntries ==
    {JObj(("key" :> JStr(p[1])) @@ ("implementation" :> JStr(p[2])) @@ ("description" :> d)) :
        p \in MergePairs, d \in LlmDescriptions}

\* The LLM-needed files: their entries in the bucket of the documented or
\* of the missing configurations.
LlmNeededFiles ==
    {JObj("llmNeeded" :> JObj(b :> JList(q))) :
        q \in ListsUpTo(LlmEntries, MaxLlmEntries),
        b \in {"documentedNoResults", "missingConfigurations"}}
    \cup {JObj("llmNeeded" :> JList(<<>>)), None}

DocsResult ==
    JObj(("description" :> JStr(TextSetup)) @@ ("shortDescription" :> JStr(""))
         @@ ("source" :> JStr(SOURCE_DOCS)) @@ ("sourceFile" :> JStr("content/en/tracing/go.md:1")))

\* An entry of step 2 for a pair: documented by the docs, documented with an
\* earlier LLM text as well, missing, or missing with an earlier LLM reason.
Step2Entry(p, shape) ==
    IF shape \in {"documented", "documented_llm"}
    THEN JObj(("key" :> JStr(p[1])) @@ ("implementation" :> JStr(p[2]))
              @@ ("results" :> JList(IF shape = "documented" THEN <<DocsResult>>
                                     ELSE <<llm_result(TextLlmOld), DocsResult>>)))
    ELSE JObj(("key" :> JStr(p[1])) @@ ("implementation" :> JStr(p[2]))
              @@ ("missingReasons" :>
                     JList(IF shape = "missing" THEN <<PriorReason>>
                           ELSE <<PriorReason,
                                  JObj(("source" :> JStr(SOURCE_LLM))
                                       @@ ("reason" :> JStr("not_found")))>>)))

Step2Shapes == {"absent", "documented", "documented_llm", "missing", "missing_llm"}

Step2File(shapes, lang) ==
    LET all == [n \in 1..2 |-> [shape |-> shapes[n],
                                entry |-> Step2Entry(MergePairSeq[n], shapes[n])]]
        of(kinds) == Bind(SelectSeq(all, LAMBDA x : x.shape \in kinds), LAMBDA sel :
                         [n \in DOMAIN sel |-> sel[n].entry])
    IN  JObj((IF lang.t = "str" THEN "lang" :> lang ELSE <<>>)
             @@ ("documentedConfigurations" :> JList(of({"documented", "documented_llm"})))
             @@ ("missingConfigurations" :> JList(of({"missing", "missing_llm"}))))

\* The outputs of step 2 and of earlier merges, and a file in which DD_A is
\* documented twice.
Step2Files ==
    {Step2File(shapes, JStr("go")) : shapes \in Step2Shapes \X Step2Shapes}
    \cup {Step2File(<<"missing", "documented">>, JNull)}
    \cup {JObj(("documentedConfigurations"
                   :> JList(<<Step2Entry(<<"DD_A", "A">>, "documented"),
                              Step2Entry(<<"DD_A", "A">>, "documented")>>))
               @@ ("missingConfigurations" :> JList(<<>>)))}

InitMerge ==
    /\ pc = "merge"
    /\ call \in {[step2 |-> s, llm_needed |-> l] : s \in Step2Files, l \in LlmNeededFiles}
    /\ ret = [exit_codes |-> <<>>, inputs |-> <<>>]
    /\ fs = None /\ argv = None /\ frame = None /\ hist = None

\* main of step 4c with its default paths: the output replaces the step-2
\* file it was made from.
DoMerge ==
    /\ pc = "merge"
    /\ Len(ret.exit_codes) < MaxMerges
    /\ \E r \in {merge_main(call.step2, call.llm_needed)} :
           /\ call' = IF r.exit_code = 0 THEN [call EXCEPT !.step2 = r.out] ELSE call
           /\ ret' = [exit_codes |-> Append(ret.exit_codes, r.exit_code),
                      inputs |-> Append(ret.inputs, call.step2)]
    /\ UNCHANGED <<pc, fs, argv, frame, hist>>

NextMerge == DoMerge

SpecMerge == InitMerge /\ [][NextMerge]_vars

ConfigsOf(step2, name) == dict_get(step2, name).items

LlmCount(items) ==
    Cardinality({n \in DOMAIN items : dict_get(items[n], "source") = JStr(SOURCE_LLM)})

PairsOf(entries) == {as_key_impl(entries[n]) : n \in DOMAIN entries}

\* The pairs the last merge promoted: missing and not documented before it,
\* with the usable text in the LLM-needed file.
PromotedPairs ==
    {p \in PairsOf(ConfigsOf(ret.inputs[Len(ret.inputs)], "missingConfigurations"))
           \ PairsOf(ConfigsOf(ret.inputs[Len(ret.inputs)], "documentedConfigurations")) :
        \E b \in DOMAIN dict_get(call.llm_needed, "llmNeeded").val :
            \E e \in Range(dict_get(call.llm_needed, "llmNeeded").val[b].items) :
                as_key_impl(e) = p /\ dict_get(e, "description") = JStr(TextLlmUsable)}

\* C19: after a merge, a documented entry has at most one llm_generated
\* result and a missing entry at most one llm_generated reason, a promoted
\* pair is documented and no longer missing, and the second merge, of the
\* output of the first with the same LLM-needed file, leaves the documented
\* and the missing configurations as they are.
C19_ReplaceNotAccumulate ==
    (ret.exit_codes # <<>> /\ ret.exit_codes[Len(ret.exit_codes)] = 0) =>
        /\ \A e \in Range(ConfigsOf(call.step2, "documentedConfigurations")) :
               LlmCount(dict_get(e, "results").items) <= 1
        /\ \A e \in Range(ConfigsOf(call.step2, "missingConfigurations")) :
               LlmCount(dict_get(e, "missingReasons").items) <= 1
        /\ \A p \in PromotedPairs :
               /\ p \in PairsOf(ConfigsOf(call.step2, "documentedConfigurations"))
               /\ p \notin PairsOf(ConfigsOf(call.step2, "missingConfigurations"))
        /\ Len(ret.exit_codes) >= 2 =>
               \A name \in {"documentedConfigurations", "missingConfigurations"} :
                   dict_get(call.step2, name) = dict_get(ret.inputs[Len(ret.inputs)], name)

\* C19 witness: step 2 had DD_A documented with an earlier LLM text and DD_B
\* missing; after two merges of a usable text for both, DD_A has the new
\* text as its one llm_generated result and DD_B is documented (by the
\* first merge: the second had no pair to promote).
C19_Witness ==
    /\ ret.exit_codes = <<0, 0>>
    /\ ret.inputs[1] = Step2File(<<"documented_llm", "missing">>, JStr("go"))
    /\ PromotedPairs = {}
    /\ PairsOf(ConfigsOf(ret.inputs[2], "documentedConfigurations")) = MergePairs
    /\ ConfigsOf(call.step2, "missingConfigurations") = <<>>
    /\ \A e \in Range(ConfigsOf(call.step2, "documentedConfigurations")) :
           /\ LlmCount(dict_get(e, "results").items) = 1
           /\ llm_result(TextLlmUsable) \in Range(dict_get(e, "results").items)

(***************************************************************************)
(* SpecMask: build_code_context_mask applied to the lines of a file        *)
(***************************************************************************)

\* Bound: the most lines of a file drawn.
MaxMaskLines == 4

FenceLine == BT \o BT \o BT \o "go"

\* A line of text, the two fences, and shortcode markers.
MaskLineKinds ==
    {"Set DD_A to 1.", FenceLine, "  ~~~", "{{< highlight go >}}", "{{< /highlight >}}",
     "{{% code-block %}}"}

InitMask ==
    /\ pc = "mask"
    /\ call \in {[lines |-> q] : q \in ListsUpTo(MaskLineKinds, MaxMaskLines)}
    /\ ret = None
    /\ fs = None /\ argv = None /\ frame = None /\ hist = None

DoMask ==
    /\ pc = "mask"
    /\ ret' = build_code_context_mask(call.lines)
    /\ pc' = "masked"
    /\ UNCHANGED <<call, fs, argv, frame, hist>>

NextMask == DoMask

SpecMask == InitMask /\ [][NextMask]_vars

IsFenceLine(ln) == \E f \in {BT \o BT \o BT, "~~~"} : HasAt(lstrip(ln, Whitespace), f, 1)

IsShortcodeLine(ln) == \E s \in {"{{<", "{{%"} : HasAt(lstrip(ln, Whitespace), s, 1)

\* The lines from..to of the file are text: no fence and no shortcode marker.
TextLines(from, to) ==
    \A n \in from..to : ~IsFenceLine(call.lines[n]) /\ ~IsShortcodeLine(call.lines[n])

\* C23: the mask has one boolean per line; text before the first marker is
\* unmasked; when the first marker of the file is a fence line, it and the
\* lines up to the next fence line are masked, and text lines directly after
\* that closing fence are unmasked whatever stood inside the fenced block;
\* with no closing fence every line from the opening fence on is masked.
C23_CodeContextMask ==
    pc = "masked" =>
        /\ Len(ret) = Len(call.lines)
        /\ \A n \in DOMAIN call.lines : TextLines(1, n) => ~ret[n]
        /\ \A i \in DOMAIN call.lines :
               (TextLines(1, i - 1) /\ IsFenceLine(call.lines[i])) =>
                   IF \E j \in (i + 1)..Len(call.lines) : IsFenceLine(call.lines[j])
                   THEN \E close \in {MinOf({j \in (i + 1)..Len(call.lines) :
                                                IsFenceLine(call.lines[j])})} :
                            /\ \A n \in i..close : ret[n]
                            /\ \A n \in (close + 1)..Len(call.lines) :
                                   TextLines(close + 1, n) => ~ret[n]
                   ELSE \A n \in i..Len(call.lines) : ret[n]

(***************************************************************************)
(* SpecExtract: the extractors applied to the lines of a file              *)
(***************************************************************************)

\* Bound: the most lines drawn after the first lines of an entry.
MaxBodyLines == 3

ExtractTerms == <<"DD_A", "DD-A">>

TermLineA == BT \o "DD_A" \o BT

\* What can follow the ':' line of a definition: text, a blank line, a
\* heading, the term line of another key, a table row, a fence, and text
\* with a '|' in it.
BodyLineKinds ==
    {"  of the traces.  ", "", "# Next", " " \o BT \o "DD_B" \o BT, " | a | b |", FenceLine, "0|1"}

\* A definition of DD_A with eleven lines after its ':' line.
LongDefinition ==
    <<TermLineA, ": l1", "l2", "l3", "l4", "l5", "l6", "l7", "l8", "l9", "l10", "l11", "l12">>

DefinitionCalls ==
    {[kind |-> "md_definition_list", lines |-> <<TermLineA, c>> \o q, terms |-> ExtractTerms] :
        c \in {": Sets the sampling rate", " :"}, q \in ListsUpTo(BodyLineKinds, MaxBodyLines)}
    \cup {[kind |-> "md_definition_list", lines |-> LongDefinition, terms |-> ExtractTerms]}

TableHeader == "| Name | Description |"

TableRows ==
    {"| DD_A | Sets the sampling rate. |", "| DD_B | Sets the other thing here. |",
     "| DD-A | Rate of the sampling. |"}

\* Tables of up to MaxBodyLines rows under a header with or without a
\* Description column, with or without the separator row.
TableCalls ==
    {[kind |-> "md_table", lines |-> h \o q, terms |-> ExtractTerms] :
        h \in {<<TableHeader>>, <<TableHeader, "|------|-------------|">>,
               <<"| Name | Default |", "|------|-------------|">>},
        q \in ListsUpTo(TableRows, MaxBodyLines)}

\* The lines of a page: a bullet for DD_A with no text to speak of, a
\* bullet with a text, a sentence about DD_A, a blank line and a heading.
PageLineKinds ==
    {"- " \o BT \o "DD_A" \o BT \o ": n/a", "- " \o BT \o "DD_A" \o BT \o ": Sampling rate of the traces.",
     "Set DD_A to configure the sampling rate.", "", "# Usage"}

\* FileMatches of DD_A, at its first mention, in a Markdown and a YAML file
\* made of up to MaxBodyLines of these lines.
FileCalls ==
    {[kind |-> "file", key |-> "DD_A", terms |-> ExtractTerms,
      fm |-> FileMatch(p, 1, MinOf(TokenOffsets(join(q, "\n"), "DD_A")),
                       path_has_any_token(lower(p), lang_hints("golang")),
                       compute_path_keyword_score(p)),
      docs_repo |-> [f \in {p} |-> [content |-> join(q, "\n"), readable |-> TRUE]]] :
        p \in {"content/en/tracing/go.md", "content/en/tracing/go.yaml"},
        q \in {q \in ListsUpTo(PageLineKinds, MaxBodyLines) :
                  TokenOffsets(join(q, "\n"), "DD_A") # {}}}

\* Paragraphs: one about DD_A, two that explain without naming it, one that
\* does neither, a heading, a fenced block that sets DD_A, and an
\* explanation that names seven other keys.
ParagraphKinds ==
    {<<"DD_A is the rate."," It is a number.">>, <<"Controls the sampling.">>,
     <<"Used to pick the rate.">>, <<"Nothing of note.">>, <<"# Usage", "Set it.">>,
     <<FenceLine, "export DD_A=1", BT \o BT \o BT>>,
     <<"Set DD_B DD_C DD_D DD_E", "DD_F DD_G DD_H too.">>}

\* The lines of a file made of paragraphs, a blank line between two.
RECURSIVE PageOf(_)
PageOf(paras) ==
    IF paras = <<>> THEN <<>>
    ELSE IF Len(paras) = 1 THEN paras[1]
    ELSE paras[1] \o <<"">> \o PageOf(Tail(paras))

\* The fenced block, n paragraphs that explain nothing, and an explanation.
FarExplanation(n) ==
    PageOf(<<<<FenceLine, "export DD_A=1", BT \o BT \o BT>>>>
           \o [k \in 1..n |-> <<"Nothing of note.">>]
           \o <<<<"Controls the sampling.">>>>)

\* The prose search from every line that names DD_A, in files of up to
\* MaxBodyLines paragraphs and in the two files with a far explanation.
ProseCalls ==
    {[kind |-> "prose", lines |-> c[1], match_line_idx |-> c[2], key |-> "DD_A",
      terms |-> ExtractTerms] :
        c \in UNION {{<<lines, n - 1>> : n \in {n \in DOMAIN lines : TokenOffsets(lines[n], "DD_A") # {}}} :
                        lines \in {PageOf(q) : q \in ListsUpTo(ParagraphKinds, MaxBodyLines)}
                                  \cup {FarExplanation(5), FarExplanation(6)}}}

\* Lines of a YAML document and of a JSON array of entries: the name of DD_A, the
\* name of DD_B, two descriptions, and another field.
YamlLineKinds ==
    {"name: DD_A", "name: DD_B", "description: Sets the sampling rate.",
     "description: Sets the other thing.", "type: string"}

JsonLineKinds ==
    {"{\"name\": \"DD_A\",", "{\"name\": \"DD_B\",", " \"description\": \"Sets the sampling rate.\"},",
     " \"description\": \"Sets the other thing.\"},", " \"type\": \"string\","}

KeyValueCalls ==
    {[kind |-> "yaml", lines |-> q, terms |-> ExtractTerms] :
        q \in ListsUpTo(YamlLineKinds, MaxBodyLines)}
    \cup {[kind |-> "json", lines |-> q, terms |-> ExtractTerms] :
             q \in ListsUpTo(JsonLineKinds, MaxBodyLines)}

InitExtract ==
    /\ pc = "extract"
    /\ call \in DefinitionCalls \cup TableCalls \cup FileCalls \cup ProseCalls \cup KeyValueCalls
    /\ ret = None
    /\ fs = None /\ argv = None /\ frame = None /\ hist = None

DoDefinitionList ==
    /\ pc = "extract"
    /\ call.kind = "md_definition_list"
    /\ ret' = extract_md_definition_list(call.lines, build_code_context_mask(call.lines), call.terms)
    /\ pc' = "extracted"
    /\ UNCHANGED <<call, fs, argv, frame, hist>>

DoTable ==
    /\ pc = "extract"
    /\ call.kind = "md_table"
    /\ ret' = extract_md_table_description(call.lines, build_code_context_mask(call.lines),
                                           call.terms)
    /\ pc' = "extracted"
    /\ UNCHANGED <<call, fs, argv, frame, hist>>

DoFile ==
    /\ pc = "extract"
    /\ call.kind = "file"
    /\ ret' = extract_from_file_for_key(call.key, call.terms, call.fm, call.docs_repo)
    /\ pc' = "extracted"
    /\ UNCHANGED <<call, fs, argv, frame, hist>>

DoProse ==
    /\ pc = "extract"
    /\ call.kind = "prose"
    /\ ret' = extract_prose_paragraph_near_match(call.lines, build_code_context_mask(call.lines),
                                                 call.match_line_idx, call.key, call.terms)
    /\ pc' = "extracted"
    /\ UNCHANGED <<call, fs, argv, frame, hist>>

DoYaml ==
    /\ pc = "extract"
    /\ call.kind = "yaml"
    /\ ret' = extract_yaml_description_near_key(call.lines, call.terms)
    /\ pc' = "extracted"
    /\ UNCHANGED <<call, fs, argv, frame, hist>>

DoJson ==
    /\ pc = "extract"
    /\ call.kind = "json"
    /\ ret' = extract_json_description_near_key(call.lines, call.terms)
    /\ pc' = "extracted"
    /\ UNCHANGED <<call, fs, argv, frame, hist>>

NextExtract == DoDefinitionList \/ DoTable \/ DoFile \/ DoProse \/ DoYaml \/ DoJson

SpecExtract == InitExtract /\ [][NextExtract]_vars

IsHeading(ln) ==
    \E h \in 1..6 : \E t \in {lstrip(ln, Whitespace)} :
        /\ Len(t) > h
        /\ \A n \in 1..h : Ch(t, n) = "#"
        /\ Ch(t, h + 1) \in Whitespace

IsTermLine(ln) ==
    \E t \in {strip(ln)} :
        /\ Len(t) >= 3 /\ Ch(t, 1) = BT /\ Ch(t, Len(t)) = BT
        /\ \A n \in 2..(Len(t) - 1) : Ch(t, n) # BT

IsBlank(ln) == strip(ln) = ""

\* Line n of the file ends the body of a definition.
EndsDefinition(n) ==
    \/ IsHeading(call.lines[n])
    \/ IsTermLine(call.lines[n])
    \/ /\ IsBlank(call.lines[n])
       /\ n < Len(call.lines)
       /\ IsHeading(call.lines[n + 1]) \/ IsTermLine(call.lines[n + 1])
    \/ HasAt(strip(call.lines[n]), "|", 1)
    \/ build_code_context_mask(call.lines)[n]

\* The captured lines of the definition whose ':' line is line 2: its text
\* after the ':', if any, and the lines after it up to the first that ends
\* the definition, ten at most.
DefinitionLines ==
    LET ends == {n \in 3..Len(call.lines) : EndsDefinition(n)}
        stop == IF ends = {} THEN Len(call.lines) + 1 ELSE MinOf(ends)
        colon == lstrip(call.lines[2], Whitespace)
        first == strip(SubSeq(colon, 2, Len(colon)))
        all == (IF first = "" THEN <<>> ELSE <<first>>)
               \o [n \in 1..(stop - 3) |-> rstrip(call.lines[n + 2], Whitespace)]
    IN  SubSeq(all, 1, IF Len(all) > 10 THEN 10 ELSE Len(all))

CellsOf(ln) ==
    LET parts == split(strip(ln), "|")
    IN  [n \in 1..(Len(parts) - 2) |-> strip(parts[n + 1])]

IsSeparator(ln) == HasAt(strip(ln), "|-", 1)

\* The header rows with a Description column that lie in the same table as
\* row i, within the 7 lines above it.
DescriptionHeaders(i) ==
    {j \in 1..(i - 1) :
        /\ i - j <= 7
        /\ \A n \in j..i : Contains(call.lines[n], "|")
        /\ j = 1 \/ ~Contains(call.lines[j - 1], "|")
        /\ \E k \in DOMAIN CellsOf(call.lines[j]) : lower(CellsOf(call.lines[j])[k]) = "description"}

DescriptionColumn(j) ==
    MinOf({k \in DOMAIN CellsOf(call.lines[j]) : lower(CellsOf(call.lines[j])[k]) = "description"})

\* C25: every table row that names a term of the key, be it the first or a
\* later row of its table, gives a candidate with the row's cell of the
\* Description column when the table's header, within the 7 lines above the
\* row, has such a column (until the file has given 3 candidates).
C25_TableHeaderLookup ==
    (pc = "extracted" /\ call.kind = "md_table") =>
        \A i \in DOMAIN call.lines :
            (/\ ~IsSeparator(call.lines[i])
             /\ \E t \in Range(call.terms) : \E pos \in 0..Len(call.lines[i]) :
                    TokenAt(call.lines[i], t, pos)
             /\ DescriptionHeaders(i) # {}
             /\ Len(ret) < 3)
            => \E n \in DOMAIN ret :
                   /\ ret[n].line_no = i
                   /\ ret[n].extractor = "md_table"
                   /\ \E j \in DescriptionHeaders(i) :
                          ret[n].desc = normalize_text(CellsOf(call.lines[i])[DescriptionColumn(j)])

\* What the structured extractors of the file's format yield for the call.
StructuredOfCall ==
    LET lines == split(call.docs_repo[call.fm.relpath].content, "\n")
    IN  structured_specs(path_suffix(call.fm.relpath), lines, build_code_context_mask(lines),
                         call.terms)

HasProse == \E n \in DOMAIN ret : ret[n].extractor = "prose_paragraph"

\* C26 as stated: when a structured extractor yielded a candidate for the
\* file match, accepted by the quality filter or not, the file match gets
\* no prose_paragraph candidate.
C26_ProseLastResort ==
    (pc = "extracted" /\ call.kind = "file") => (StructuredOfCall # <<>> => ~HasProse)

\* C26 amended: the file match gets a prose_paragraph candidate only when no
\* candidate of the structured extractors passed the quality filter; when
\* one passed, its candidates are those that passed, in their order.
C26_ProseAfterFilter ==
    (pc = "extracted" /\ call.kind = "file") =>
        \E passed \in {SelectSeq(StructuredOfCall,
                                 LAMBDA s : passes_quality_bar(normalize_text(s.desc)))} :
            IF passed # <<>>
            THEN /\ ~HasProse
                 /\ Len(ret) = Len(passed)
                 /\ \A n \in DOMAIN ret :
                        /\ ret[n].description = normalize_text(passed[n].desc)
                        /\ ret[n].extractor = passed[n].extractor
                        /\ ret[n].line_number = passed[n].line_no
            ELSE Len(ret) <= 1 /\ \A n \in DOMAIN ret : ret[n].extractor = "prose_paragraph"

\* C26 witness: the bullet of DD_A says n/a and is filtered out, and the
\* file match gets the prose paragraph instead.
C26_Witness ==
    /\ pc = "extracted" /\ call.kind = "file"
    /\ Len(StructuredOfCall) = 1 /\ StructuredOfCall[1].desc = "n/a"
    /\ Len(ret) = 1 /\ ret[1].extractor = "prose_paragraph"

\* The first lines of the paragraphs of the file, a paragraph being a
\* maximal run of non-blank lines.
ParagraphStarts ==
    {s \in DOMAIN call.lines :
        ~IsBlank(call.lines[s]) /\ (s = 1 \/ IsBlank(call.lines[s - 1]))}

\* The last line of the paragraph that starts at line s.
ParagraphEnd(s) ==
    MinOf({e \in s..Len(call.lines) : e = Len(call.lines) \/ IsBlank(call.lines[e + 1])})

\* The first line of the k-th paragraph among the starts.
ParagraphNo(starts, k) ==
    CHOOSE s \in starts : Cardinality({o \in starts : o < s}) = k - 1

\* The number of the paragraph that holds the match line.
MatchParagraph(starts) ==
    Cardinality({s \in starts : s <= call.match_line_idx + 1})

ParagraphText(s) == strip(join(SubSeq(call.lines, s, ParagraphEnd(s)), "\n"))

Explains(txt) ==
    \E w \in {"environment variable", "set ", "controls", "configure", "enables", "disable",
              "used to", "specifies"} : Contains(lower(txt), w)

\* The paragraph that starts at line s may be returned at distance d from
\* the match paragraph.
Qualifies(mask, s, d) ==
    /\ \A n \in s..ParagraphEnd(s) : ~mask[n]
    /\ ~IsHeading(call.lines[s])
    /\ \E txt \in {ParagraphText(s)} :
          /\ IF d = 0
             THEN \E t \in Range(call.terms) : TokenOffsets(txt, t) # {}
             ELSE Explains(txt)
          /\ Cardinality(OtherKeyTokens(normalize_text(txt), call.key)) <= 6

\* The offsets from the match paragraph in the order of the search: the match
\* paragraph, then at each distance the left one before the right one.
SearchOrder == <<0, -1, 1, -2, 2, -3, 3, -4, 4, -5, 5, -6, 6>>

Distance(o) == IF o >= 0 THEN o ELSE 0 - o

\* The first line of the first paragraph in the search order that qualifies,
\* 0 when there is none.
FirstQualifying(mask, starts) ==
    \* the places of the search order that fall on a paragraph that qualifies
    LET at == MatchParagraph(starts)
        hits == {n \in DOMAIN SearchOrder :
                    /\ at + SearchOrder[n] >= 1
                    /\ at + SearchOrder[n] <= Cardinality(starts)
                    /\ Qualifies(mask, ParagraphNo(starts, at + SearchOrder[n]),
                                 Distance(SearchOrder[n]))}
    IN  IF hits = {} THEN 0 ELSE ParagraphNo(starts, at + SearchOrder[MinOf(hits)])

\* C27: extract_prose_paragraph_near_match returns the paragraph of the
\* match line when it has no masked line, does not start with a heading,
\* names a term and mentions at most 6 other keys; otherwise the first, in
\* the order distance 1 left, 1 right, ..., 6 left, 6 right, of the
\* paragraphs with no masked line that do not start with a heading, hold an
\* explanatory keyword and mention at most 6 other keys; and nothing when
\* there is none. The candidate cites the first line of the paragraph.
C27_ProseSearchOrder ==
    (pc = "extracted" /\ call.kind = "prose") =>
        \E s \in {FirstQualifying(build_code_context_mask(call.lines), ParagraphStarts)} :
            IF s = 0 THEN ret = None
            ELSE ret = Spec3(normalize_text(ParagraphText(s)), s, "prose_paragraph")

\* C27 witness: the match is in a fenced block between two explanations, and
\* the one before the block is returned.
C27_Witness ==
    /\ pc = "extracted" /\ call.kind = "prose"
    /\ Cardinality(ParagraphStarts) = 3 /\ MatchParagraph(ParagraphStarts) = 2
    /\ \E mask \in {build_code_context_mask(call.lines)} :
          /\ ~Qualifies(mask, ParagraphNo(ParagraphStarts, 2), 0)
          /\ Qualifies(mask, ParagraphNo(ParagraphStarts, 1), 1)
          /\ Qualifies(mask, ParagraphNo(ParagraphStarts, 3), 1)
    /\ ParagraphText(1) # ParagraphText(ParagraphNo(ParagraphStarts, 3))
    /\ ret # None /\ ret.line_no = 1

\* The line holds a name or key field.
IsNameLine(ln) == Contains(ln, "name") \/ Contains(ln, "key")

\* The line names a term of the key; the line names another identifier.
NamesTerm(ln) == IsNameLine(ln) /\ \E t \in Range(call.terms) : TokenOffsets(ln, t) # {}
NamesOther(ln) == IsNameLine(ln) /\ \A t \in Range(call.terms) : TokenOffsets(ln, t) = {}

\* C30: every description the YAML and JSON key/value extractors return
\* belongs to an entry of the key: a line that names a term of the key comes
\* before it (or is the line itself) with no line naming another identifier
\* between that line and the description.
C30_SameEntry ==
    (pc = "extracted" /\ call.kind \in {"yaml", "json"}) =>
        \A n \in DOMAIN ret :
            \E i \in 1..ret[n].line_no :
                /\ NamesTerm(call.lines[i])
                /\ \A m \in (i + 1)..ret[n].line_no : ~NamesOther(call.lines[m])

(***************************************************************************)
(* What main() keeps of the records of the earlier stages                  *)
(***************************************************************************)

\* The reasons an earlier stage recorded on an entry: the objects of its
\* missingReasons whose source and reason are strings, in their order.
PriorReasons(e) ==
    IF dict_get(e, "missingReasons").t # "list" THEN <<>>
    ELSE SelectSeq(dict_get(e, "missingReasons").items,
                   LAMBDA r : r.t = "dict" /\ dict_get(r, "source").t = "str"
                                           /\ dict_get(r, "reason").t = "str")

\* The missingSources of a documented record, none when the field is absent.
SourcesOf(r) ==
    IF dict_get(r, "missingSources").t = "list" THEN dict_get(r, "missingSources").items
    ELSE <<>>

AllButLast(q) == SubSeq(q, 1, Len(q) - 1)

\* The records with the pair p: the input's missing entries, the records the
\* output keeps missing, and the records the output documents.
EntriesOf(p) == SelectSeq(InputMissing, LAMBDA e : HasPair(e, p))
KeptOf(p) == SelectSeq(OutMissing, LAMBDA r : HasPair(r, p))
MadeOf(p) == SelectSeq(OutDocumented, LAMBDA r : HasPair(r, p) /\ r \notin Range(InputDocumented))

\* C28: every documented entry of the input is in the output's
\* documentedConfigurations unchanged; the records kept missing for a pair
\* hold, entry by entry, the prior reasons of the input's entries in their
\* order followed by exactly one documentation_same_language reason; and the
\* records documented for a pair hold them, unchanged and in order, as
\* missingSources.
C28_PriorDataKept ==
    Assembled =>
        /\ \A n \in DOMAIN InputDocumented : InputDocumented[n].t = "dict" =>
               CountOf(OutDocumented, LAMBDA r : r = InputDocumented[n])
                   = CountOf(InputDocumented, LAMBDA e : e = InputDocumented[n])
        /\ \A n \in DOMAIN InputMissing : IsPaired(InputMissing[n]) =>
               \E p \in {<<dict_get(InputMissing[n], "key"),
                           dict_get(InputMissing[n], "implementation")>>} :
               \E es \in {EntriesOf(p)}, kept \in {KeptOf(p)}, made \in {MadeOf(p)} :
                   /\ kept # <<>> =>
                          /\ Len(kept) = Len(es)
                          /\ \A i \in DOMAIN kept :
                                 \E rs \in {dict_get(kept[i], "missingReasons").items} :
                                     /\ AllButLast(rs) = PriorReasons(es[i])
                                     /\ dict_get(rs[Len(rs)], "source") = JStr(SOURCE_DOCS)
                   /\ made # <<>> =>
                          /\ Len(made) = Len(es)
                          /\ \A i \in DOMAIN made : SourcesOf(made[i]) = PriorReasons(es[i])

\* C28 witness: the entry rejected twice is kept missing with its two prior
\* reasons in their order and the new one after them, next to the documented
\* entry of the input.
C28_Witness ==
    /\ Assembled
    /\ fs.input.value = MixedCatalog
    /\ \E kept \in {KeptOf(<<JStr("DD_A"), JStr("B")>>)} :
           /\ Len(kept) = 1
           /\ AllButLast(dict_get(kept[1], "missingReasons").items) = <<QualityReason, PriorReason>>
    /\ DocumentedEntry \in Range(OutDocumented)

(***************************************************************************)
(* SpecWriters: two invocations inside atomic_write_json at the same time  *)
(***************************************************************************)

\* The two processes, each at its own statement of atomic_write_json, over
\* one file system: fs.names gives the file a path names, fs.inodes the
\* content of each file. A file stays alive while a process holds it open,
\* whatever happens to its name. Offsets count chunks.
Writers == {1, 2}

WriterPath == DefaultArgv.output \o "/" \o OUTPUT_FILENAME

\* What one run has to write: the artifact of a language with no record,
\* or with one record kept missing.
WriterObjects ==
    {output_obj(lang, <<>>, missing) :
        lang \in {"golang", "java"},
        missing \in {<<>>, <<MissingEntry("DD_A", "A")>>}}

\* The bytes a write leaves where nothing was written before its offset.
Hole == [text |-> "\\0", value |-> JNull]

\* The content after chunk is written at offset: what is there is
\* overwritten, and a gap before the offset reads as zero bytes.
write_at(content, offset, chunk) ==
    [n \in 1..(IF offset + 1 > Len(content) THEN offset + 1 ELSE Len(content)) |->
        IF n = offset + 1 THEN chunk
        ELSE IF n <= Len(content) THEN content[n]
        ELSE Hole]

\* A file id that names no file yet.
fresh_inode(inodes) == MinOf({i \in 0..Cardinality(DOMAIN inodes) : i \notin DOMAIN inodes})

InitWriters ==
    /\ pc = [p \in Writers |-> "mkdir"]
    /\ call = None
    /\ ret = None
    /\ argv = DefaultArgv
    /\ hist = None
    /\ \E objs \in [Writers -> WriterObjects] :
           frame = [p \in Writers |-> [output_obj |-> objs[p], written |-> 0, fd |-> 0]]
    /\ \E old \in BOOLEAN :
           fs = [dirs |-> IF old THEN {DefaultArgv.output} ELSE {},
                 names |-> IF old THEN (WriterPath :> 0) ELSE <<>>,
                 inodes |-> IF old THEN (0 :> json_text(output_obj("golang", <<>>, <<>>)))
                            ELSE <<>>]

\* atomic_write_json, line 91: path.parent.mkdir(parents=True, exist_ok=True)
MkdirBy(p) ==
    /\ pc[p] = "mkdir"
    /\ fs' = [fs EXCEPT !.dirs = @ \cup {argv.output}]
    /\ pc' = [pc EXCEPT ![p] = "open"]
    /\ UNCHANGED <<call, ret, argv, frame, hist>>

\* atomic_write_json, line 93: tmp.open("w") empties the file the temporary
\* path names, or creates one; the process writes from offset 0.
OpenTmpBy(p) ==
    /\ pc[p] = "open"
    /\ \E tmp \in {tmp_path(WriterPath)} :
       \E id \in {IF tmp \in DOMAIN fs.names THEN fs.names[tmp] ELSE fresh_inode(fs.inodes)} :
           /\ fs' = [fs EXCEPT !.names = with_file(@, tmp, id),
                               !.inodes = with_file(@, id, <<>>)]
           /\ frame' = [frame EXCEPT ![p].fd = id, ![p].written = 0]
    /\ pc' = [pc EXCEPT ![p] = "dump"]
    /\ UNCHANGED <<call, ret, argv, hist>>

\* atomic_write_json, lines 94-95: json.dump and f.write write the next
\* chunk to the open file at the offset of the process.
WriteBy(p) ==
    /\ pc[p] = "dump"
    /\ \E text \in {json_text(frame[p].output_obj)} :
           /\ fs' = [fs EXCEPT !.inodes[frame[p].fd] =
                        write_at(@, frame[p].written, text[frame[p].written + 1])]
           /\ frame' = [frame EXCEPT ![p].written = @ + 1]
           /\ pc' = [pc EXCEPT ![p] = IF frame[p].written + 1 = Len(text) THEN "close" ELSE "dump"]
    /\ UNCHANGED <<call, ret, argv, hist>>

\* atomic_write_json: the with block ends and the temporary file is closed.
CloseTmpBy(p) ==
    /\ pc[p] = "close"
    /\ pc' = [pc EXCEPT ![p] = "replace"]
    /\ UNCHANGED <<call, ret, fs, argv, frame, hist>>

\* atomic_write_json, line 96: os.replace(tmp, path) gives the output path
\* the file of the temporary path, and raises FileNotFoundError when the
\* temporary path names no file.
ReplaceBy(p) ==
    /\ pc[p] = "replace"
    /\ IF tmp_path(WriterPath) \in DOMAIN fs.names
       THEN /\ fs' = [fs EXCEPT !.names = os_replace(@, tmp_path(WriterPath), WriterPath)]
            /\ pc' = [pc EXCEPT ![p] = "wrote"]
       ELSE /\ pc' = [pc EXCEPT ![p] = "raised"]
            /\ UNCHANGED fs
    /\ UNCHANGED <<call, ret, argv, frame, hist>>

NextWriters ==
    \E p \in Writers : MkdirBy(p) \/ OpenTmpBy(p) \/ WriteBy(p) \/ CloseTmpBy(p) \/ ReplaceBy(p)

SpecWriters == InitWriters /\ [][NextWriters]_vars

\* C29: when two runs execute atomic_write_json on the same output path
\* with their steps interleaved, neither call raises, and once both calls
\* have ended the output file holds the complete document of one of the two.
C29_ConcurrentWriters ==
    /\ \A p \in Writers : pc[p] # "raised"
    /\ (\A p \in Writers : pc[p] \in {"wrote", "raised"}) =>
           /\ WriterPath \in DOMAIN fs.names
           /\ \E p \in Writers : fs.inodes[fs.names[WriterPath]] = json_text(frame[p].output_obj)

====
